---- MODULE Spec2Model ----
(***************************************************************************)
(* The replication control plane of the Vyomanaut coordinator: the device  *)
(* registry, the placement engine, distribution and its acknowledgements,  *)
(* the health scanner, the healer, the reaper and file deletion.           *)
(*                                                                         *)
(* Every handler of the backend is an async function.  Node runs one       *)
(* handler at a time but switches at every await, so a handler is modelled *)
(* as a small process whose steps are its database statements; statements  *)
(* are merged into one step only where no other statement can observe the  *)
(* difference (a write followed by a read of another table).               *)
(***************************************************************************)
EXTENDS Integers, Sequences, FiniteSets, TLC

---------------------------------------------------------------------------
(* Universe and program constants                                          *)

Devices == {"d1", "d2", "d3", "d4", "d5", "d6"}
Chunks == {"c1", "c2"}
HealWorkers == {"h1", "h2"}

\* file.service.ts: every chunk row is created with targetReplicas: 3
TargetReplicas == 3
\* config.fileProcessing.redundancyFactor
RedundancyFactor == 3
\* Math.round(p * 100) / 100: scores are kept in hundredths of a point
ScoreScale == 100
\* minimum reliability for placement (70 points)
MinReliability == 70
\* size of a chunk, in units of device capacity
ChunkSize == 1
\* healing jobs: attempts: 5
HealAttempts == 5
\* deletion.service.ts: SAFETY_MARGIN
SAFETY_MARGIN == 2
\* delete-file jobs: attempts: 5
FileAttempts == 5

\* Bounds of the model
MaxEvents == 2
MaxDistRuns == 2
MaxLocId == 8
MaxHealJobs == 1
MaxSock == 2
MaxTime == 2
MaxCapacity == 2
MaxCleanupJobs == 1
MaxCalls == 2
\* hours of scheduler time
MaxHours == 24

VARIABLES
  now,      \* the clock (ms, abstract units)
  dev,      \* Device table: dev[d] = the row of logical device d
  sock,     \* sock[d]: number of open sockets whose data.deviceId is d
  holds,    \* holds[d]: the chunks device d keeps on its disk
  file,     \* status of the file row ("NONE" before upload, "GONE" once deleted)
  chunk,    \* Chunk table: chunk[c] = [status, cr]; status "NONE": no row
  locs,     \* ChunkLocation table: a set of rows
  nextId,   \* next ChunkLocation id
  dist,     \* dist[c]: the distributeChunk call in progress for c
  send,     \* send[<<c, d>>]: sendChunkToDevice(d, c) and its confirm listener
  da,       \* da[d]: the detectAffectedChunks(d) call scheduled by setImmediate
  scan,     \* the scanAllChunks call in progress
  healQ,    \* healQ[c]: heal-chunk jobs waiting in the healing queue
  hw,       \* hw[w]: the job a healing worker slot is processing
  trimQ,    \* trimQ[c]: delete-excess-replicas jobs waiting in the cleanup queue
  tw,       \* the delete-excess-replicas job being processed
  fileQ,    \* delete-file jobs waiting in the cleanup queue
  fj,       \* the delete-file job being processed
  del,      \* del[<<c, d>>]: deleteChunkFromDevice(c, d) and its listener
  events,   \* number of environment events so far (bounded by MaxEvents)
  runs,     \* number of distributeChunk calls so far (bounded by MaxDistRuns)
  told,     \* the <<c, d>> for which the delete-file job emitted chunk:delete
  rh,       \* registerDevice / updateDeviceHeartbeat calls between their
            \* read of the device row and their write
  dl,       \* the download in progress, the location cache and the stored
            \* ciphertexts that have a flipped byte
  ul,       \* the upload in progress: its File row and its Chunk rows
  hs        \* the HealthScheduler: its timers, the clock and what has fired

vars == <<now, dev, sock, holds, file, chunk, locs, nextId, dist, send, da,
          scan, healQ, hw, trimQ, tw, fileQ, fj, del, events, runs, told, rh, dl, ul, hs>>

\* the variables of the reaper and of file deletion
cleanupVars == <<trimQ, tw, fileQ, fj, del>>

---------------------------------------------------------------------------
(* Helpers                                                                 *)

Min(a, b) == IF a < b THEN a ELSE b
Max(a, b) == IF a > b THEN a ELSE b

NoDev == [status |-> "NONE", score |-> 0, avail |-> 0, total |-> 0,
          up |-> 0, down |-> 0, seen |-> 0]

\* calculateReliabilityScore: round(100 * up / (up + down), 2), clamped
calculateReliabilityScore(up, down) ==
  IF up + down = 0 THEN 100 * ScoreScale
  ELSE Max(0, Min(100 * ScoreScale,
         (2 * 100 * ScoreScale * up + (up + down)) \div (2 * (up + down))))

\* rows of chunk c / of device d
LocsOf(c) == {l \in locs : l.chunk = c}
LocsOn(d) == {l \in locs : l.dev = d}

\* loc.isHealthy && loc.device.status === 'ONLINE'
IsLive(l) == l.healthy /\ dev[l.dev].status = "ONLINE"
HealthyCount(c) == Cardinality({l \in LocsOf(c) : IsLive(l)})

\* a table without the unique index
NoUniqueIndex(c, d) == FALSE

\* The unique index ChunkLocation(chunkId, deviceId): a create of a second row
\* for the pair fails
UniqueViolation(c, d) == \E l \in locs : l.chunk = c /\ l.dev = d

NewLoc(c, d, h) == [id |-> nextId, chunk |-> c, dev |-> d, healthy |-> h,
                    verified |-> FALSE]

\* findHealthyDevices: the where clause
Eligible(minFree, minScore) ==
  {d \in Devices : /\ dev[d].status = "ONLINE"
                   /\ dev[d].score >= minScore * ScoreScale
                   /\ dev[d].avail >= minFree}

\* orderBy reliabilityScore desc, availableStorageBytes desc
Better(x, y) ==
  \/ dev[x].score > dev[y].score
  \/ dev[x].score = dev[y].score /\ dev[x].avail > dev[y].avail

RECURSIVE TopSeqs(_, _)
\* every order the database may return the first n rows of E in: rows that tie
\* on both keys come in an unspecified order
TopSeqs(E, n) ==
  IF n = 0 \/ E = {} THEN {<<>>}
  ELSE UNION {{<<x>> \o s : s \in TopSeqs(E \ {x}, n - 1)} :
              x \in {y \in E : \A z \in E : ~Better(z, y)}}

\* findHealthyDevices without its where clause: every registered device
findAnyDevices(minFree, minScore, limit) ==
  TopSeqs({d \in Devices : dev[d].status # "NONE"}, limit)

findHealthyDevices(minFree, minScore, limit) ==
  TopSeqs(Eligible(minFree, minScore), limit)

SeqRange(s) == {s[i] : i \in 1..Len(s)}
Take(s, n) == SubSeq(s, 1, Min(n, Len(s)))

RECURSIVE Without(_, _)
\* candidates.filter(d => !existing.includes(d.id))
Without(s, X) ==
  IF s = <<>> THEN <<>>
  ELSE IF Head(s) \in X THEN Without(Tail(s), X)
       ELSE <<Head(s)>> \o Without(Tail(s), X)

\* the detectAffectedChunks call of a device: idle, scheduled, or in its loop
DaIdle == [pc |-> "idle", todo |-> {}, cur |-> "none", cnt |-> 0]
DaSched == [pc |-> "sched", todo |-> {}, cur |-> "none", cnt |-> 0]
DaLoop(todo) == IF todo = {} THEN DaIdle
                ELSE [pc |-> "flip", todo |-> todo, cur |-> "none", cnt |-> 0]

---------------------------------------------------------------------------
(* Device registry: device.service.ts, websocket/device.events.ts          *)

\* the slots of registry calls that are between their read and their write,
\* and the lowest one that is free
Calls == 1..MaxCalls
FreeCall == CHOOSE k \in Calls : /\ \A r \in rh : r.k # k
                                 /\ \A j \in 1..(k - 1) : \E r \in rh : r.k = j

\* device:register on a socket, a new connection (fresh) or one that is
\* already bound to d.  registerDevice, first statement: read the row and,
\* when it is OFFLINE, compute the downtime to add and the new score
RegisterRead(d, total, fresh) ==
  /\ Cardinality(rh) < MaxCalls
  /\ IF fresh
     THEN sock[d] + Cardinality({r \in rh : r.op = "reg" /\ r.d = d /\ r.fresh})
            < MaxSock
     ELSE sock[d] > 0
  /\ LET ex == dev[d]
         wasOffline == ex.status = "OFFLINE"
         downtime == ex.down + (now - ex.seen)
     IN rh' = rh \cup {[k |-> FreeCall, op |-> "reg", d |-> d, total |-> total,
                        fresh |-> fresh, wasOffline |-> wasOffline,
                        down |-> IF wasOffline THEN downtime ELSE 0,
                        score |-> IF wasOffline
                                  THEN calculateReliabilityScore(ex.up, downtime)
                                  ELSE 0,
                        up |-> 0, t |-> 0]}
  /\ UNCHANGED <<now, dev, sock, holds, file, chunk, locs, nextId, dist, send,
                 da, scan, healQ, hw, events, runs, told, dl, ul, hs,
                 cleanupVars>>

\* the row the upsert of call r leaves: a new row for an unknown device, else
\* the row with the values r computed from what it had read
registerDevice(r) ==
  IF dev[r.d].status = "NONE"
  THEN [status |-> "ONLINE", score |-> 100 * ScoreScale, avail |-> r.total,
        total |-> r.total, up |-> 0, down |-> 0, seen |-> now]
  ELSE [dev[r.d] EXCEPT !.status = "ONLINE", !.seen = now, !.total = r.total,
                        !.avail = r.total,
                        !.down = IF r.wasOffline THEN r.down ELSE @,
                        !.score = IF r.wasOffline THEN r.score ELSE @]

\* registerDevice's upsert; then the handler binds the socket:
\* socket.data.deviceId = d
RegisterWrite(k) ==
  /\ \E r \in rh :
       /\ r.k = k /\ r.op = "reg"
       /\ dev' = [dev EXCEPT ![r.d] = registerDevice(r)]
       /\ sock' = [sock EXCEPT ![r.d] = IF r.fresh THEN @ + 1 ELSE @]
       /\ rh' = rh \ {r}
  /\ UNCHANGED <<now, holds, file, chunk, locs, nextId, dist, send, da, scan,
                 healQ, hw, events, runs, told, dl, ul, hs,
                 cleanupVars>>

\* device:ping / device:storage:update -> updateDeviceHeartbeat, first
\* statement: read the row (the handler throws for an unknown device) and
\* compute the uptime from lastSeenAt.  The ping names its device in the
\* payload, whatever socket it comes from
HeartbeatRead(d) ==
  /\ Cardinality(rh) < MaxCalls
  /\ dev[d].status # "NONE"
  /\ rh' = rh \cup {[k |-> FreeCall, op |-> "hb", d |-> d, total |-> 0,
                     fresh |-> FALSE, wasOffline |-> FALSE, down |-> 0,
                     score |-> 0,
                     up |-> dev[d].up + (now - dev[d].seen), t |-> now]}
  /\ UNCHANGED <<now, dev, sock, holds, file, chunk, locs, nextId, dist, send,
                 da, scan, healQ, hw, events, runs, told, dl, ul, hs,
                 cleanupVars>>

\* updateDeviceHeartbeat's update: lastSeenAt, the free space of the payload,
\* status ONLINE and the uptime computed before
HeartbeatWrite(k, avail) ==
  /\ \E r \in rh :
       /\ r.k = k /\ r.op = "hb"
       /\ dev' = [dev EXCEPT ![r.d].seen = r.t, ![r.d].avail = avail,
                             ![r.d].status = "ONLINE", ![r.d].up = r.up]
       /\ rh' = rh \ {r}
  /\ UNCHANGED <<now, sock, holds, file, chunk, locs, nextId, dist, send, da,
                 scan, healQ, hw, events, runs, told, dl, ul, hs,
                 cleanupVars>>

\* the row markDeviceOffline / suspendDevice write: downtime is added only
\* when the device was ONLINE
wentDown(d, status) ==
  LET ex == dev[d]
      downtime == IF ex.status = "ONLINE" THEN ex.down + (now - ex.seen)
                  ELSE ex.down
  IN [ex EXCEPT !.status = status, !.seen = now, !.down = downtime,
                !.score = calculateReliabilityScore(ex.up, downtime)]

\* markDeviceOffline without its test of the status
markAnyDeviceOffline(d) ==
  /\ da[d].pc = "idle"
  /\ dev' = [dev EXCEPT ![d] = wentDown(d, "OFFLINE")]
  /\ da' = [da EXCEPT ![d] = DaSched]

\* markDeviceOffline: only an ONLINE device is changed, and then
\* detectAffectedChunks is scheduled with setImmediate
markDeviceOffline(d) ==
  IF dev[d].status = "ONLINE"
  THEN /\ da[d].pc = "idle"
       /\ dev' = [dev EXCEPT ![d] = wentDown(d, "OFFLINE")]
       /\ da' = [da EXCEPT ![d] = DaSched]
  ELSE UNCHANGED <<dev, da>>

\* what is left of a sendChunkToDevice call whose promise was rejected: the
\* rejection counts in distributeChunk while it still waits for its sends
Rejected(c) == IF dist[c].pc = "wait" THEN "fail" ELSE "none"

\* the once-listeners of a socket go with the socket: a send or delete that
\* still waits can then only time out
sendAfterClose(d) ==
  [p \in Chunks \X Devices |->
     IF p[2] # d THEN send[p]
     ELSE IF send[p].st = "wait" THEN [send[p] EXCEPT !.st = "lost"]
     ELSE IF send[p].st = "tmo" THEN [send[p] EXCEPT !.st = Rejected(p[1])]
     ELSE send[p]]

delAfterClose(d) ==
  [p \in Chunks \X Devices |->
     IF p[2] # d THEN del[p]
     ELSE IF del[p] = "wait" THEN "lost"
     ELSE IF del[p] = "tmo" THEN "done"
     ELSE del[p]]

\* 'disconnect' of a socket bound to d
Disconnect(d) ==
  /\ events < MaxEvents
  /\ sock[d] > 0
  /\ sock' = [sock EXCEPT ![d] = @ - 1]
  /\ send' = IF sock[d] = 1 THEN sendAfterClose(d) ELSE send
  /\ del' = IF sock[d] = 1 THEN delAfterClose(d) ELSE del
  /\ markDeviceOffline(d)
  /\ events' = events + 1
  /\ UNCHANGED <<scan, now, holds, file, chunk, locs, nextId, dist, healQ,
                 hw, runs, trimQ, tw, fileQ, fj,
                 told, rh, dl, ul, hs>>

\* POST /devices/:deviceId/suspend -> suspendDevice: throws for an unknown
\* device; whatever the previous status, the row becomes SUSPENDED and
\* detectAffectedChunks is scheduled
Suspend(d) ==
  /\ events < MaxEvents
  /\ dev[d].status # "NONE"
  /\ da[d].pc = "idle"
  /\ dev' = [dev EXCEPT ![d] = wentDown(d, "SUSPENDED")]
  /\ da' = [da EXCEPT ![d] = DaSched]
  /\ events' = events + 1
  /\ UNCHANGED <<scan, now, sock, holds, file, chunk, locs, nextId, dist, send,
                 healQ, hw, runs,
                 cleanupVars,
                 told, rh, dl, ul, hs>>

\* time passes
Tick ==
  /\ now < MaxTime
  /\ now' = now + 1
  /\ UNCHANGED <<dev, sock, holds, file, chunk, locs, nextId, dist, send, da, scan,
                 healQ, hw, events, runs,
                 cleanupVars,
                 told, rh, dl, ul, hs>>

---------------------------------------------------------------------------
(* Health scanner: replication/health.service.ts                           *)

\* queueChunkHealing: one more heal-chunk job for c (jobs for one chunk are
\* interchangeable; the model keeps at most MaxHealJobs of them waiting)
queueChunkHealing(q, c) == [q EXCEPT ![c] = Min(@ + 1, MaxHealJobs)]

\* detectAffectedChunks(d), first statement: findMany of the rows on d
DetectStart(d) ==
  /\ da[d].pc = "sched"
  /\ da' = [da EXCEPT ![d] =
             DaLoop({[id |-> l.id, chunk |-> l.chunk] : l \in LocsOn(d)})]
  /\ UNCHANGED <<scan, now, dev, sock, holds, file, chunk, locs, nextId, dist, send,
                 healQ, hw, events, runs,
                 cleanupVars,
                 told, rh, dl, ul, hs>>

\* one turn of the loop, for the row t of the list read at the start: update
\* the row to isHealthy: false (by id: it throws when the row is gone, which
\* ends the call), then count the rows of the chunk that are healthy on ONLINE
\* devices
DetectFlip(d, t) ==
  /\ da[d].pc = "flip"
  /\ t \in da[d].todo
  /\ IF \E l \in locs : l.id = t.id
     THEN LET row == CHOOSE l \in locs : l.id = t.id
              flipped == (locs \ {row}) \cup {[row EXCEPT !.healthy = FALSE]}
              cnt == Cardinality({l \in flipped : /\ l.chunk = t.chunk
                                                  /\ l.healthy
                                                  /\ dev[l.dev].status = "ONLINE"})
              rest == da[d].todo \ {t}
          IN /\ locs' = flipped
             /\ da' = [da EXCEPT ![d] =
                        IF cnt < TargetReplicas
                        THEN [pc |-> "queue", todo |-> rest, cur |-> t.chunk,
                              cnt |-> cnt]
                        ELSE DaLoop(rest)]
     ELSE /\ da' = [da EXCEPT ![d] = DaIdle]
          /\ UNCHANGED locs
  /\ UNCHANGED <<scan, now, dev, sock, holds, file, chunk, nextId, dist, send,
                 healQ, hw, events, runs,
                 cleanupVars,
                 told, rh, dl, ul, hs>>

\* the chunk is below target: queueChunkHealing adds a heal-chunk job
DetectQueue(d) ==
  /\ da[d].pc = "queue"
  /\ healQ' = queueChunkHealing(healQ, da[d].cur)
  /\ da' = [da EXCEPT ![d].pc = "write"]
  /\ UNCHANGED <<scan, now, dev, sock, holds, file, chunk, locs, nextId, dist,
                 send, hw, events, runs,
                 cleanupVars,
                 told, rh, dl, ul, hs>>

\* then the chunk's status and currentReplicas are written from the count
\* taken before the job was queued (the update throws when the chunk row is
\* gone, which ends the call)
DetectWrite(d) ==
  /\ da[d].pc = "write"
  /\ IF chunk[da[d].cur].status # "NONE"
     THEN /\ chunk' = [chunk EXCEPT ![da[d].cur] =
                        [status |-> IF da[d].cnt = 0 THEN "LOST" ELSE "DEGRADED",
                         cr |-> da[d].cnt]]
          /\ da' = [da EXCEPT ![d] = DaLoop(da[d].todo)]
     ELSE /\ da' = [da EXCEPT ![d] = DaIdle]
          /\ UNCHANGED chunk
  /\ UNCHANGED <<scan, now, dev, sock, holds, file, locs, nextId, dist, send,
                 healQ, hw, events, runs,
                 cleanupVars,
                 told, rh, dl, ul, hs>>

\* chunks the scan looks at, and those it finds below target
Scanned == {c \in Chunks : chunk[c].status \in {"REPLICATING", "HEALTHY", "DEGRADED"}}
NeedsHealing(c) == HealthyCount(c) < TargetReplicas

RECURSIVE QueueAll(_, _)
QueueAll(q, S) ==
  IF S = {} THEN q
  ELSE LET c == CHOOSE x \in S : TRUE
       IN QueueAll(queueChunkHealing(q, c), S \ {c})

ScanIdle == [pc |-> "idle", todo |-> {}]

\* the hourly timer fires: scanAllChunks reads every chunk that is
\* REPLICATING, HEALTHY or DEGRADED with its placements
ScanStart ==
  /\ scan.pc = "idle"
  /\ scan' = [pc |-> "run", todo |-> {c \in Scanned : NeedsHealing(c)}]
  /\ UNCHANGED <<now, dev, sock, holds, file, chunk, locs, nextId, dist, send,
                 da, healQ, hw, events, runs, cleanupVars,
                 told, rh, dl, ul, hs>>

\* the loop of scanAllChunks: a heal-chunk job for every chunk that was below
\* target in what it read; the scan writes nothing to the chunk rows
ScanQueue ==
  /\ scan.pc = "run"
  /\ healQ' = QueueAll(healQ, scan.todo)
  /\ scan' = ScanIdle
  /\ UNCHANGED <<now, dev, sock, holds, file, chunk, locs, nextId, dist, send,
                 da, hw, events, runs, cleanupVars,
                 told, rh, dl, ul, hs>>

---------------------------------------------------------------------------
(* Placement and healing: chunks/assignment.service.ts, healing.worker.ts  *)

HwIdle == [pc |-> "idle", c |-> "none", att |-> 0, missing |-> 0,
           existing |-> {}, todo |-> <<>>, created |-> FALSE, cnt |-> 0]

\* the job threw: Bull retries it (after a backoff) until its attempts are used
HealThrow(w) ==
  IF hw[w].att < HealAttempts
  THEN [HwIdle EXCEPT !.pc = "read", !.c = hw[w].c, !.att = hw[w].att + 1]
  ELSE HwIdle

\* a worker slot takes a waiting heal-chunk job
HealTake(w, c) ==
  /\ hw[w].pc = "idle"
  /\ healQ[c] > 0
  /\ healQ' = [healQ EXCEPT ![c] = @ - 1]
  /\ hw' = [hw EXCEPT ![w] = [HwIdle EXCEPT !.pc = "read", !.c = c, !.att = 1]]
  /\ UNCHANGED <<now, dev, sock, holds, file, chunk, locs, nextId, dist, send,
                 da, scan, events, runs,
                 cleanupVars,
                 told, rh, dl, ul, hs>>

\* processHealChunkJob steps 1-3: load the chunk, count, skip when healed
HealRead(w) ==
  /\ hw[w].pc = "read"
  /\ hw' = [hw EXCEPT ![w] =
             IF chunk[hw[w].c].status = "NONE" THEN HealThrow(w)
             ELSE IF HealthyCount(hw[w].c) >= TargetReplicas THEN HwIdle
             ELSE [@ EXCEPT !.pc = "reassign"]]
  /\ UNCHANGED <<now, dev, sock, holds, file, chunk, locs, nextId, dist, send,
                 da, scan, healQ, events, runs,
                 cleanupVars,
                 told, rh, dl, ul, hs>>

\* reassignChunk: load the chunk again, compute the missing replicas and the
\* devices that already have a row for the chunk
HealReassign(w) ==
  /\ hw[w].pc = "reassign"
  /\ LET c == hw[w].c
         missing == TargetReplicas - HealthyCount(c)
     IN hw' = [hw EXCEPT ![w] =
                IF chunk[c].status = "NONE" THEN HealThrow(w)
                ELSE IF missing <= 0 THEN [@ EXCEPT !.pc = "count"]
                ELSE [@ EXCEPT !.pc = "cands", !.missing = missing,
                               !.existing = {l.dev : l \in LocsOf(c)}]]
  /\ UNCHANGED <<now, dev, sock, holds, file, chunk, locs, nextId, dist, send,
                 da, scan, healQ, events, runs,
                 cleanupVars,
                 told, rh, dl, ul, hs>>

\* the devices reassignChunk will create rows on, given the candidates the
\* registry returned
devicesToAssign(cands, existing, missing) ==
  Take(Without(cands, existing), missing)

\* reassignChunk: findHealthyDevices(size, 70, missing * 2), filter, slice
HealCands(w) ==
  /\ hw[w].pc = "cands"
  /\ \E cands \in findHealthyDevices(ChunkSize, MinReliability,
                                     hw[w].missing * 2) :
       LET todo == devicesToAssign(cands, hw[w].existing, hw[w].missing)
       IN hw' = [hw EXCEPT ![w] =
                  IF todo = <<>> THEN [@ EXCEPT !.pc = "count"]
                  ELSE [@ EXCEPT !.pc = "create", !.todo = todo]]
  /\ UNCHANGED <<now, dev, sock, holds, file, chunk, locs, nextId, dist, send,
                 da, scan, healQ, events, runs,
                 cleanupVars,
                 told, rh, dl, ul, hs>>

\* a create that is checked against the foreign keys only
ForeignKeysOnly(c, d) == chunk[c].status = "NONE" \/ dev[d].status = "NONE"

\* prisma.chunkLocation.create fails on the unique index and on a missing
\* chunk or device row (foreign keys)
CreateFails(c, d) ==
  \/ UniqueViolation(c, d)
  \/ chunk[c].status = "NONE"
  \/ dev[d].status = "NONE"

\* reassignChunk: one chunkLocation.create of the loop (isHealthy: false)
HealCreate(w) ==
  /\ hw[w].pc = "create"
  /\ LET c == hw[w].c
         d == Head(hw[w].todo)
     IN IF CreateFails(c, d)
        THEN /\ hw' = [hw EXCEPT ![w] = HealThrow(w)]
             /\ UNCHANGED <<locs, nextId>>
        ELSE /\ nextId <= MaxLocId
             /\ locs' = locs \cup {NewLoc(c, d, FALSE)}
             /\ nextId' = nextId + 1
             /\ hw' = [hw EXCEPT ![w] =
                        IF Tail(hw[w].todo) = <<>>
                        THEN [@ EXCEPT !.pc = "count", !.todo = <<>>,
                                       !.created = TRUE]
                        ELSE [@ EXCEPT !.todo = Tail(hw[w].todo)]]
  /\ UNCHANGED <<now, dev, sock, holds, file, chunk, dist, send, da, scan, healQ,
                 events, runs,
                 cleanupVars,
                 told, rh, dl, ul, hs>>

\* reassignChunk's last statement (status REPLICATING, when rows were
\* created), then processHealChunkJob step 6: count the healthy rows
HealCount(w) ==
  /\ hw[w].pc = "count"
  /\ LET c == hw[w].c
     IN IF hw[w].created /\ chunk[c].status = "NONE"
        THEN /\ hw' = [hw EXCEPT ![w] = HealThrow(w)]
             /\ UNCHANGED chunk
        ELSE /\ chunk' = IF hw[w].created
                         THEN [chunk EXCEPT ![c].status = "REPLICATING"]
                         ELSE chunk
             /\ hw' = [hw EXCEPT ![w].pc = "write",
                                 ![w].cnt = HealthyCount(c)]
  /\ UNCHANGED <<now, dev, sock, holds, file, locs, nextId, dist, send, da, scan,
                 healQ, events, runs,
                 cleanupVars,
                 told, rh, dl, ul, hs>>

\* processHealChunkJob: write the status and currentReplicas from that count
HealWrite(w) ==
  /\ hw[w].pc = "write"
  /\ LET c == hw[w].c
     IN IF chunk[c].status = "NONE"
        THEN /\ hw' = [hw EXCEPT ![w] = HealThrow(w)]
             /\ UNCHANGED chunk
        ELSE /\ chunk' = [chunk EXCEPT ![c] =
                           [status |-> IF hw[w].cnt >= TargetReplicas
                                       THEN "HEALTHY" ELSE "REPLICATING",
                            cr |-> hw[w].cnt]]
             /\ hw' = [hw EXCEPT ![w] = HwIdle]
  /\ UNCHANGED <<now, dev, sock, holds, file, locs, nextId, dist, send, da, scan,
                 healQ, events, runs,
                 cleanupVars,
                 told, rh, dl, ul, hs>>

---------------------------------------------------------------------------
(* Distribution: chunks/distribution.service.ts, assignment.service.ts     *)

DistIdle == [pc |-> "idle", sel |-> <<>>, todo |-> <<>>]
SendNone == [st |-> "none", avail |-> 0, loc |-> 0, cr |-> 0]

\* a sendChunkToDevice promise that is still pending
Pending(c, d) ==
  send[<<c, d>>].st \in {"wait", "lost", "conf0", "conf", "hung"}
\* a confirm handler that is between two of its awaits
InHandler(c, d) == send[<<c, d>>].st \in {"conf0", "late0", "conf", "late"}

\* distributeChunk -> assignChunk: read the chunk, ask the registry for
\* redundancyFactor * 3 candidates, fail when fewer than redundancyFactor come
\* back, keep the first redundancyFactor
DistStart(c) ==
  /\ dist[c].pc = "idle"
  /\ runs < MaxDistRuns
  /\ chunk[c].status # "NONE"
  /\ \A d \in Devices : ~InHandler(c, d)
  /\ runs' = runs + 1
  /\ \E cands \in findHealthyDevices(ChunkSize, MinReliability,
                                     RedundancyFactor * 3) :
       dist' = [dist EXCEPT ![c] =
                 IF Len(cands) < RedundancyFactor THEN DistIdle
                 ELSE [pc |-> "create", sel |-> Take(cands, RedundancyFactor),
                       todo |-> Take(cands, RedundancyFactor)]]
  /\ UNCHANGED <<now, dev, sock, holds, file, chunk, locs, nextId, send, da, scan,
                 healQ, hw, events,
                 cleanupVars,
                 told, rh, dl, ul, hs>>

\* assignChunk: one chunkLocation.create of the loop (isHealthy: true); a
\* failed create ends distributeChunk and leaves the rows made so far
DistCreate(c) ==
  /\ dist[c].pc = "create"
  /\ LET d == Head(dist[c].todo)
     IN IF CreateFails(c, d)
        THEN /\ dist' = [dist EXCEPT ![c] = DistIdle]
             /\ UNCHANGED <<locs, nextId>>
        ELSE /\ nextId <= MaxLocId
             /\ locs' = locs \cup {NewLoc(c, d, TRUE)}
             /\ nextId' = nextId + 1
             /\ dist' = [dist EXCEPT ![c] =
                          IF Tail(dist[c].todo) = <<>>
                          THEN [@ EXCEPT !.pc = "send", !.todo = <<>>]
                          ELSE [@ EXCEPT !.todo = Tail(dist[c].todo)]]
  /\ UNCHANGED <<now, dev, sock, holds, file, chunk, send, da, scan, healQ, hw,
                 events, runs,
                 cleanupVars,
                 told, rh, dl, ul, hs>>

\* assignChunk's last statement (status REPLICATING, currentReplicas 0), then
\* sendChunkToDevice for every selected device: read the device row, find its
\* socket, emit chunk:assign and listen once for chunk:confirm:<chunkId>
DistSend(c) ==
  /\ dist[c].pc = "send"
  /\ IF chunk[c].status = "NONE"
     THEN /\ dist' = [dist EXCEPT ![c] = DistIdle]
          /\ UNCHANGED <<chunk, send>>
     ELSE /\ chunk' = [chunk EXCEPT ![c] = [status |-> "REPLICATING", cr |-> 0]]
          /\ send' = [p \in Chunks \X Devices |->
                       IF p[1] = c /\ p[2] \in SeqRange(dist[c].sel)
                       THEN IF sock[p[2]] > 0
                            THEN [SendNone EXCEPT !.st = "wait",
                                                  !.avail = dev[p[2]].avail]
                            ELSE [SendNone EXCEPT !.st = "fail"]
                       ELSE send[p]]
          /\ dist' = [dist EXCEPT ![c].pc = "wait"]
  /\ UNCHANGED <<now, dev, sock, holds, file, locs, nextId, da, scan, healQ, hw,
                 events, runs,
                 cleanupVars,
                 told, rh, dl, ul, hs>>

\* the status confirmChunkDelivery writes with the new replica count
statusFor(n) == IF n >= TargetReplicas THEN "HEALTHY" ELSE "REPLICATING"

\* The device stored the chunk and answers chunk:confirm:<c> {success: true}.
\* confirmChunkDelivery, first statement: find the row of (c, d); it throws
\* when there is none, and then the promise is never settled (the timer was
\* cleared)
Confirm0(c, d) ==
  /\ send[<<c, d>>].st \in {"wait", "tmo"}
  /\ sock[d] > 0
  /\ holds' = [holds EXCEPT ![d] = @ \cup {c}]
  /\ LET late == send[<<c, d>>].st = "tmo"
         rows == {l \in locs : l.chunk = c /\ l.dev = d}
     IN send' = [send EXCEPT ![<<c, d>>] =
                  IF rows = {}
                  THEN [@ EXCEPT !.st = IF late THEN Rejected(c) ELSE "hung"]
                  ELSE [@ EXCEPT !.st = IF late THEN "late0" ELSE "conf0",
                                 !.loc = (CHOOSE l \in rows : TRUE).id]]
  /\ UNCHANGED <<now, dev, sock, file, chunk, locs, nextId, dist, da, scan, healQ,
                 hw, events, runs, cleanupVars,
                 told, rh, dl, ul, hs>>

\* confirmChunkDelivery: set lastVerified and isHealthy: true on the row found
\* (by id: it throws when the row is gone), then read the chunk and its
\* currentReplicas (throw when the chunk is gone)
Confirm1(c, d) ==
  /\ send[<<c, d>>].st \in {"conf0", "late0"}
  /\ LET late == send[<<c, d>>].st = "late0"
         rows == {l \in locs : l.id = send[<<c, d>>].loc}
     IN IF rows = {} \/ chunk[c].status = "NONE"
        THEN /\ send' = [send EXCEPT ![<<c, d>>].st =
                          IF late THEN Rejected(c) ELSE "hung",
                                     ![<<c, d>>].loc = 0]
             /\ locs' = {IF l \in rows
                         THEN [l EXCEPT !.healthy = TRUE, !.verified = TRUE]
                         ELSE l : l \in locs}
        ELSE /\ locs' = {IF l \in rows
                         THEN [l EXCEPT !.healthy = TRUE, !.verified = TRUE]
                         ELSE l : l \in locs}
             /\ send' = [send EXCEPT ![<<c, d>>].st =
                             IF late THEN "late" ELSE "conf",
                                        ![<<c, d>>].loc = 0,
                                        ![<<c, d>>].cr = chunk[c].cr]
  /\ UNCHANGED <<now, dev, sock, holds, file, chunk, nextId, dist, da, scan, healQ,
                 hw, events, runs, cleanupVars,
                 told, rh, dl, ul, hs>>

\* confirmChunkDelivery's write of the chunk (throws when the row is gone),
\* then sendChunkToDevice's write of the device's free space from the row it
\* read before sending
Confirm2(c, d) ==
  /\ send[<<c, d>>].st \in {"conf", "late"}
  /\ LET late == send[<<c, d>>].st = "late"
         n == send[<<c, d>>].cr + 1
     IN IF chunk[c].status = "NONE"
        THEN /\ send' = [send EXCEPT ![<<c, d>>].st =
                          IF late THEN Rejected(c) ELSE "hung"]
             /\ UNCHANGED <<chunk, dev>>
        ELSE /\ chunk' = [chunk EXCEPT ![c] =
                           [status |-> statusFor(n), cr |-> n]]
             /\ dev' = [dev EXCEPT ![d].avail = send[<<c, d>>].avail - ChunkSize]
             /\ send' = [send EXCEPT ![<<c, d>>].st =
                          IF late THEN Rejected(c) ELSE "ok",
                                     ![<<c, d>>].cr = 0]
  /\ UNCHANGED <<now, sock, holds, file, locs, nextId, dist, da, scan, healQ, hw,
                 events, runs,
                 cleanupVars,
                 told, rh, dl, ul, hs>>

\* the device answers {success: false}: the promise is rejected
Reject(c, d) ==
  /\ send[<<c, d>>].st \in {"wait", "tmo"}
  /\ sock[d] > 0
  /\ send' = [send EXCEPT ![<<c, d>>].st = Rejected(c)]
  /\ UNCHANGED <<now, dev, sock, holds, file, chunk, locs, nextId, dist, da, scan,
                 healQ, hw, events, runs,
                 cleanupVars,
                 told, rh, dl, ul, hs>>

\* the 30 s timer of sendChunkToDevice fires: the promise is rejected, the
\* listener stays on the socket
SendTimeout(c, d) ==
  /\ send[<<c, d>>].st \in {"wait", "lost"}
  /\ send' = [send EXCEPT ![<<c, d>>].st =
               IF send[<<c, d>>].st = "wait" THEN "tmo" ELSE Rejected(c)]
  /\ UNCHANGED <<now, dev, sock, holds, file, chunk, locs, nextId, dist, da, scan,
                 healQ, hw, events, runs,
                 cleanupVars,
                 told, rh, dl, ul, hs>>

\* Promise.allSettled returned: fewer fulfilled sends than targetReplicas
\* marks the chunk DEGRADED
DistFinish(c) ==
  /\ dist[c].pc = "wait"
  /\ \A d \in SeqRange(dist[c].sel) : ~Pending(c, d)
  /\ LET successCount == Cardinality({d \in SeqRange(dist[c].sel) :
                                        send[<<c, d>>].st = "ok"})
     IN chunk' = IF successCount < TargetReplicas /\ chunk[c].status # "NONE"
                 THEN [chunk EXCEPT ![c].status = "DEGRADED"]
                 ELSE chunk
  /\ send' = [p \in Chunks \X Devices |->
               IF p[1] = c /\ send[p].st \in {"ok", "fail"} THEN SendNone
               ELSE send[p]]
  /\ dist' = [dist EXCEPT ![c] = DistIdle]
  /\ UNCHANGED <<now, dev, sock, holds, file, locs, nextId, da, scan, healQ, hw,
                 events, runs,
                 cleanupVars,
                 told, rh, dl, ul, hs>>

---------------------------------------------------------------------------
(* Reaper and file deletion: chunks/deletion.service.ts, cleanup.worker.ts *)
(* Each named processor of the cleanup queue is given one slot.            *)

TwIdle == [pc |-> "idle", c |-> "none", todo |-> <<>>]
FjIdle == [pc |-> "idle", att |-> 0, todo |-> {}, c |-> "none", devs |-> {}]

maxAllowed == TargetReplicas + SAFETY_MARGIN

\* a deleteChunkFromDevice promise that has been resolved
Resolved(c, d) == del[<<c, d>>] \in {"none", "done", "tmo"}

\* scanAndCleanupExcessReplicas -> checkAndQueueExcessReplicaDeletion: a
\* delete-excess-replicas job for every chunk above target + SAFETY_MARGIN
ExcessScan ==
  /\ trimQ' = [c \in Chunks |->
                IF chunk[c].status # "NONE" /\ HealthyCount(c) > maxAllowed
                THEN Min(trimQ[c] + 1, MaxCleanupJobs) ELSE trimQ[c]]
  /\ trimQ' # trimQ
  /\ UNCHANGED <<now, dev, sock, holds, file, chunk, locs, nextId, dist, send,
                 da, scan, healQ, hw, tw, fileQ, fj, del, events, runs,
                 told, rh, dl, ul, hs>>

TrimTake(c) ==
  /\ tw.pc = "idle"
  /\ trimQ[c] > 0
  /\ trimQ' = [trimQ EXCEPT ![c] = @ - 1]
  /\ tw' = [TwIdle EXCEPT !.pc = "read", !.c = c]
  /\ UNCHANGED <<now, dev, sock, holds, file, chunk, locs, nextId, dist, send,
                 da, scan, healQ, hw, fileQ, fj, del, events, runs,
                 told, rh, dl, ul, hs>>

RECURSIVE LowSeqs(_, _)
\* the first n of E after a sort by reliabilityScore ascending: the sort is
\* stable, and the rows came from the database in an unspecified order
LowSeqs(E, n) ==
  IF n = 0 \/ E = {} THEN {<<>>}
  ELSE UNION {{<<x>> \o s : s \in LowSeqs(E \ {x}, n - 1)} :
              x \in {y \in E : \A z \in E : dev[z].score >= dev[y].score}}

\* executeExcessReplicaDeletion: how many replicas to remove, given the number
\* of healthy placements it read
excessCount(healthy) == healthy - maxAllowed

\* executeExcessReplicaDeletion up to its loop: read the chunk and its healthy
\* placements on ONLINE devices, return when there is no excess, else select
\* the excess placements on the least reliable devices
TrimRead ==
  /\ tw.pc = "read"
  /\ LET c == tw.c
         excess == excessCount(HealthyCount(c))
     IN IF chunk[c].status = "NONE" \/ excess <= 0
        THEN tw' = TwIdle
        ELSE \E v \in LowSeqs({l.dev : l \in {x \in LocsOf(c) : IsLive(x)}},
                              excess) :
               tw' = [tw EXCEPT !.pc = "dev", !.todo = v]
  /\ UNCHANGED <<now, dev, sock, holds, file, chunk, locs, nextId, dist, send,
                 da, scan, healQ, hw, trimQ, fileQ, fj, del, events, runs,
                 told, rh, dl, ul, hs>>

\* deleteChunkFromDevice(c, d) up to its promise, on the table of placements:
\* without a socket the rows of (c, d) are marked unhealthy
markForCleanup(c, D) ==
  {IF l.chunk = c /\ l.dev \in D THEN [l EXCEPT !.healthy = FALSE] ELSE l :
     l \in locs}

\* the loop of executeExcessReplicaDeletion: deleteChunkFromDevice for the
\* next selected placement
TrimDev ==
  /\ tw.pc = "dev"
  /\ LET c == tw.c
         d == Head(tw.todo)
     IN IF sock[d] = 0
        THEN /\ locs' = markForCleanup(c, {d})
             /\ tw' = IF Tail(tw.todo) = <<>>
                      THEN [tw EXCEPT !.pc = "done", !.todo = <<>>]
                      ELSE [tw EXCEPT !.todo = Tail(tw.todo)]
             /\ UNCHANGED del
        ELSE /\ Resolved(c, d)
             /\ del' = [del EXCEPT ![<<c, d>>] = "wait"]
             /\ tw' = [tw EXCEPT !.pc = "wait"]
             /\ UNCHANGED locs
  /\ UNCHANGED <<now, dev, sock, holds, file, chunk, nextId, dist, send,
                 da, scan, healQ, hw, trimQ, fileQ, fj, events, runs,
                 told, rh, dl, ul, hs>>

\* the promise of the current deleteChunkFromDevice was resolved
TrimNext ==
  /\ tw.pc = "wait"
  /\ LET c == tw.c
         d == Head(tw.todo)
     IN /\ del[<<c, d>>] \in {"done", "tmo"}
        /\ del' = [del EXCEPT ![<<c, d>>] = IF @ = "done" THEN "none" ELSE @]
        /\ tw' = IF Tail(tw.todo) = <<>>
                 THEN [tw EXCEPT !.pc = "done", !.todo = <<>>]
                 ELSE [tw EXCEPT !.pc = "dev", !.todo = Tail(tw.todo)]
  /\ UNCHANGED <<now, dev, sock, holds, file, chunk, locs, nextId, dist, send,
                 da, scan, healQ, hw, trimQ, fileQ, fj, events, runs,
                 told, rh, dl, ul, hs>>

\* the trimming is over: the worker logs it and returns {success: true}
TrimDone ==
  /\ tw.pc = "done"
  /\ tw' = TwIdle
  /\ UNCHANGED <<now, dev, sock, holds, file, chunk, locs, nextId, dist, send,
                 da, scan, healQ, hw, trimQ, fileQ, fj, del, events, runs,
                 told, rh, dl, ul, hs>>

\* The device removed the chunk and answers chunk:deleted:<c> {success: true}:
\* the handler adds the chunk's size to the device's free space and deletes
\* the rows of (c, d)
DelOk(c, d) ==
  /\ del[<<c, d>>] \in {"wait", "tmo"}
  /\ sock[d] > 0
  /\ holds' = [holds EXCEPT ![d] = @ \ {c}]
  /\ dev' = [dev EXCEPT ![d].avail =
              @ + (IF chunk[c].status = "NONE" THEN 0 ELSE ChunkSize)]
  /\ locs' = {l \in locs : ~(l.chunk = c /\ l.dev = d)}
  /\ del' = [del EXCEPT ![<<c, d>>] = IF @ = "wait" THEN "dec" ELSE "latedec"]
  /\ UNCHANGED <<now, sock, file, chunk, nextId, dist, send, da, scan, healQ, hw,
                 trimQ, tw, fileQ, fj, events, runs,
                 told, rh, dl, ul, hs>>

\* the handler's last statement: currentReplicas decrement 1 (it throws when
\* the chunk row is gone, and then the promise is never resolved)
DelDec(c, d) ==
  /\ del[<<c, d>>] \in {"dec", "latedec"}
  /\ LET late == del[<<c, d>>] = "latedec"
     IN IF chunk[c].status = "NONE"
        THEN /\ del' = [del EXCEPT ![<<c, d>>] =
                         IF late THEN "none" ELSE "hung"]
             /\ UNCHANGED chunk
        ELSE /\ chunk' = [chunk EXCEPT ![c].cr = @ - 1]
             /\ del' = [del EXCEPT ![<<c, d>>] =
                         IF late THEN "none" ELSE "done"]
  /\ UNCHANGED <<now, dev, sock, holds, file, locs, nextId, dist, send, da, scan,
                 healQ, hw, trimQ, tw, fileQ, fj, events, runs,
                 told, rh, dl, ul, hs>>

\* the device answers {success: false}: the promise is resolved
DelFail(c, d) ==
  /\ del[<<c, d>>] \in {"wait", "tmo"}
  /\ sock[d] > 0
  /\ del' = [del EXCEPT ![<<c, d>>] = IF @ = "wait" THEN "done" ELSE "none"]
  /\ UNCHANGED <<now, dev, sock, holds, file, chunk, locs, nextId, dist, send,
                 da, scan, healQ, hw, trimQ, tw, fileQ, fj, events, runs,
                 told, rh, dl, ul, hs>>

\* the 60 s timer of deleteChunkFromDevice fires: the promise is resolved,
\* nothing is written, the listener stays on the socket
DelTimeout(c, d) ==
  /\ del[<<c, d>>] \in {"wait", "lost"}
  /\ del' = [del EXCEPT ![<<c, d>>] = IF @ = "wait" THEN "tmo" ELSE "done"]
  /\ UNCHANGED <<now, dev, sock, holds, file, chunk, locs, nextId, dist, send,
                 da, scan, healQ, hw, trimQ, tw, fileQ, fj, events, runs,
                 told, rh, dl, ul, hs>>

\* DELETE /files/:id -> deleteFile: throws for an unknown file, else marks the
\* file DELETED and queues a delete-file job
DeleteFile ==
  /\ events < MaxEvents
  /\ file \in {"ACTIVE", "DELETED"}
  /\ file' = "DELETED"
  /\ fileQ' = Min(fileQ + 1, MaxCleanupJobs)
  /\ events' = events + 1
  /\ UNCHANGED <<now, dev, sock, holds, chunk, locs, nextId, dist, send, da, scan,
                 healQ, hw, trimQ, tw, fj, del, runs,
                 told, rh, dl, ul, hs>>

FileTake ==
  /\ fj.pc = "idle"
  /\ fileQ > 0
  /\ fileQ' = fileQ - 1
  /\ fj' = [FjIdle EXCEPT !.pc = "chunks", !.att = 1]
  /\ UNCHANGED <<now, dev, sock, holds, file, chunk, locs, nextId, dist, send,
                 da, scan, healQ, hw, trimQ, tw, del, events, runs,
                 told, rh, dl, ul, hs>>

\* executeFileDeletion step 1: findMany of the file's chunks
FileChunks ==
  /\ fj.pc = "chunks"
  /\ fj' = [fj EXCEPT !.pc = "locs",
                      !.todo = {c \in Chunks : chunk[c].status # "NONE"}]
  /\ UNCHANGED <<now, dev, sock, holds, file, chunk, locs, nextId, dist, send,
                 da, scan, healQ, hw, trimQ, tw, fileQ, del, events, runs,
                 told, rh, dl, ul, hs>>

\* deleteChunkFromAllDevices(c) for the next chunk of the list: findMany of its
\* placements, then deleteChunkFromDevice for all of them at once - a device
\* without a socket has its row marked unhealthy, the others get chunk:delete
FileLocs(c) ==
  /\ fj.pc = "locs"
  /\ c \in fj.todo
  /\ LET D == {l.dev : l \in LocsOf(c)}
     IN /\ \A d \in D : Resolved(c, d)
        /\ locs' = markForCleanup(c, {d \in D : sock[d] = 0})
        /\ del' = [p \in Chunks \X Devices |->
                    IF p[1] = c /\ p[2] \in D /\ sock[p[2]] > 0 THEN "wait"
                    ELSE del[p]]
        /\ told' = told \cup {<<c, d>> : d \in {x \in D : sock[x] > 0}}
        /\ fj' = [fj EXCEPT !.pc = "wait", !.c = c, !.devs = D]
  /\ UNCHANGED <<now, dev, sock, holds, file, chunk, nextId, dist, send, da, scan,
                 healQ, hw, trimQ, tw, fileQ, events, runs,
                 rh, dl, ul, hs>>

\* chunkLocation.deleteMany({chunkId: c})
deleteLocations(c) == {l \in locs : l.chunk # c}

\* Promise.allSettled returned: the chunk leaves temporary storage and all its
\* placement rows are deleted
FileSettled ==
  /\ fj.pc = "wait"
  /\ \A d \in fj.devs : Resolved(fj.c, d)
  /\ locs' = deleteLocations(fj.c)
  /\ del' = [p \in Chunks \X Devices |->
              IF p[1] = fj.c /\ del[p] = "done" THEN "none" ELSE del[p]]
  /\ fj' = [fj EXCEPT !.pc = IF fj.todo = {fj.c} THEN "final" ELSE "locs",
                      !.todo = @ \ {fj.c}, !.c = "none", !.devs = {}]
  /\ UNCHANGED <<now, dev, sock, holds, file, chunk, nextId, dist, send, da, scan,
                 healQ, hw, trimQ, tw, fileQ, events, runs,
                 told, rh, dl, ul, hs>>

\* the file had no chunk rows: the loop is empty
FileNoChunks ==
  /\ fj.pc = "locs"
  /\ fj.todo = {}
  /\ fj' = [fj EXCEPT !.pc = "final"]
  /\ UNCHANGED <<now, dev, sock, holds, file, chunk, locs, nextId, dist, send,
                 da, scan, healQ, hw, trimQ, tw, fileQ, del, events, runs,
                 told, rh, dl, ul, hs>>

\* a schema without ON DELETE CASCADE on ChunkLocation.chunk
NoCascade == locs

\* ON DELETE CASCADE from File to Chunk to ChunkLocation: the placement rows
\* that survive the deletion of the file row
cascadeLocations == {l \in locs : l.chunk \notin Chunks}

\* executeFileDeletion step 3: prisma.file.delete.  It throws when the file
\* row is gone, and the worker rethrows: the job is retried until its attempts
\* are used
FileFinal ==
  /\ fj.pc = "final"
  /\ IF file = "GONE"
     THEN /\ fj' = IF fj.att < FileAttempts
                   THEN [FjIdle EXCEPT !.pc = "chunks", !.att = fj.att + 1]
                   ELSE FjIdle
          /\ UNCHANGED <<file, chunk, locs>>
     ELSE /\ file' = "GONE"
          /\ chunk' = [c \in Chunks |-> [status |-> "NONE", cr |-> 0]]
          /\ locs' = cascadeLocations
          /\ fj' = FjIdle
  /\ UNCHANGED <<now, dev, sock, holds, nextId, dist, send, da, scan, healQ, hw,
                 trimQ, tw, fileQ, del, events, runs,
                 told, rh, dl, ul, hs>>

---------------------------------------------------------------------------
(* Specifications                                                          *)

\* the row of a device right after its first registration with `total'
\* bytes of storage
FreshDev(total) == [status |-> "ONLINE", score |-> 100 * ScoreScale,
                    avail |-> total, total |-> total,
                    up |-> 0, down |-> 0, seen |-> 0]

\* retrieveChunk for one chunk: the holders still to ask, the ones asked,
\* the one whose answer is awaited and the buffer that was returned
NoData == [of |-> "none", flipped |-> FALSE]
DlChunkIdle == [pc |-> "none", todo |-> {}, tried |-> {}, at |-> "none",
                data |-> NoData]
NoCache == [hit |-> FALSE, devs |-> {}]
DlIdle == [pc |-> "idle", chunks |-> <<>>,
           ch |-> [c \in Chunks |-> DlChunkIdle],
           out |-> <<>>, why |-> "none",
           cache |-> [c \in Chunks |-> NoCache], bad |-> {}]

\* no upload: no File row (del: a delete-file job for the file waits)
UlIdle == [pc |-> "idle", size |-> 0, chunkCount |-> 0, status |-> "NONE",
           plan |-> <<>>, rows |-> <<>>, del |-> FALSE]

\* the HealthScheduler before start(): no timer; clock in seconds since the
\* server started, done: the callbacks that have fired at this instant
HsIdle == [started |-> FALSE, stopped |-> FALSE, intervals |-> {},
           startup |-> FALSE, clock |-> 0, done |-> {}]

\* the devices in D are connected and no handler, job or timer is in progress
AtRest(D) ==
  /\ now = 0
  /\ sock = [d \in Devices |-> IF d \in D THEN 1 ELSE 0]
  /\ file = "ACTIVE"
  /\ dist = [c \in Chunks |-> DistIdle]
  /\ da = [d \in Devices |-> DaIdle]
  /\ scan = ScanIdle
  /\ healQ = [c \in Chunks |-> 0]
  /\ hw = [w \in HealWorkers |-> HwIdle]
  /\ trimQ = [c \in Chunks |-> 0]
  /\ tw = TwIdle
  /\ fileQ = 0
  /\ fj = FjIdle
  /\ del = [p \in Chunks \X Devices |-> "none"]
  /\ events = 0
  /\ told = {}
  /\ rh = {}
  /\ dl = DlIdle
  /\ ul = UlIdle
  /\ hs = HsIdle

\* The devices in D have registered, device d with cap[d] bytes; a file with
\* the chunks in C has been uploaded and nothing has been distributed yet
Uploaded(D, cap, C) ==
  /\ AtRest(D)
  /\ dev = [d \in Devices |-> IF d \in D THEN FreshDev(cap[d]) ELSE NoDev]
  /\ holds = [d \in Devices |-> {}]
  /\ chunk = [c \in Chunks |-> IF c \in C THEN [status |-> "PENDING", cr |-> 0]
                               ELSE [status |-> "NONE", cr |-> 0]]
  /\ locs = {}
  /\ nextId = 1
  /\ send = [p \in Chunks \X Devices |-> SendNone]
  /\ runs = 0

\* The state distributeChunk(c) leaves after r runs that together placed c on
\* the devices of the sequence H, when every device of the last run has
\* acknowledged (acked) or when none has and all its sends timed out (their
\* listeners are still on the sockets)
Placed(D, cap, c, H, r, acked) ==
  /\ AtRest(D)
  /\ dev = [d \in Devices |->
             IF d \notin D THEN NoDev
             ELSE IF acked /\ d \in SeqRange(H)
                  THEN [FreshDev(cap[d]) EXCEPT !.avail = @ - ChunkSize]
                  ELSE FreshDev(cap[d])]
  /\ holds = [d \in Devices |-> IF acked /\ d \in SeqRange(H) THEN {c} ELSE {}]
  /\ chunk = [x \in Chunks |->
               IF x # c THEN [status |-> "NONE", cr |-> 0]
               ELSE IF acked THEN [status |-> "HEALTHY", cr |-> RedundancyFactor]
               ELSE [status |-> "DEGRADED", cr |-> 0]]
  /\ locs = {[id |-> i, chunk |-> c, dev |-> H[i], healthy |-> TRUE,
              verified |-> acked] : i \in 1..Len(H)}
  /\ nextId = Len(H) + 1
  /\ send = [p \in Chunks \X Devices |->
               IF ~acked /\ p[1] = c /\ p[2] \in SeqRange(H)
               THEN [SendNone EXCEPT !.st = "tmo", !.avail = cap[p[2]]]
               ELSE SendNone]
  /\ runs = r

\* steps of the handlers that are in progress, for the devices D, the chunks
\* C and the healing worker slots W
DetectStep(D) ==
  \E d \in D : \/ DetectStart(d)
               \/ \E t \in da[d].todo : DetectFlip(d, t)
               \/ DetectQueue(d)
               \/ DetectWrite(d)

HealStep(W, C) ==
  \E w \in W : \/ \E c \in C : HealTake(w, c)
               \/ HealRead(w)
               \/ HealReassign(w)
               \/ HealCands(w)
               \/ HealCreate(w)
               \/ HealCount(w)
               \/ HealWrite(w)

DistStep(D, C) ==
  \E c \in C : \/ DistStart(c)
               \/ DistCreate(c)
               \/ DistSend(c)
               \/ DistFinish(c)
               \/ \E d \in D : \/ Confirm0(c, d)
                               \/ Confirm1(c, d)
                               \/ Confirm2(c, d)
                               \/ SendTimeout(c, d)

\* the registry calls for the devices D, which offer cap[d] bytes
RegistryStep(D, cap) ==
  \/ \E d \in D : \/ \E fresh \in BOOLEAN : RegisterRead(d, cap[d], fresh)
                  \/ HeartbeatRead(d)
                  \/ Disconnect(d)
                  \/ Suspend(d)
  \/ \E k \in Calls : \/ RegisterWrite(k)
                      \/ \E avail \in 0..MaxCapacity : HeartbeatWrite(k, avail)

\* storage offered at registration: the devices differ, so that the registry
\* ranks them in one order
Capacity == [d \in Devices |->
               CASE d = "d1" -> MaxCapacity + 5
                 [] d = "d2" -> MaxCapacity + 4
                 [] d = "d3" -> MaxCapacity + 3
                 [] d = "d4" -> MaxCapacity + 2
                 [] d = "d5" -> MaxCapacity + 1
                 [] OTHER -> MaxCapacity]

\* Three devices and one chunk: distribution and its acknowledgements, the
\* device ranked first dropping out, offline detection, the scan and a
\* healing worker
SpecDevices == {"d1", "d2", "d3"}
SpecChunks == {"c1"}
SpecWorkers == {"h1"}

Init == Uploaded(SpecDevices, Capacity, SpecChunks)

Next ==
  \/ Disconnect("d1")
  \/ DetectStep(SpecDevices)
  \/ ScanStart
  \/ ScanQueue
  \/ HealStep(SpecWorkers, SpecChunks)
  \/ DistStep(SpecDevices, SpecChunks)

Spec == Init /\ [][Next]_vars

\* C1: every chunk whose status is HEALTHY has at least targetReplicas
\* placements that are healthy on ONLINE devices.  It is stated for the states
\* in which no offline detection is scheduled or running and no healing job
\* waits or runs, where it fails as well.
C1_HealthyChunksHaveTargetReplicas ==
  (/\ \A d \in Devices : da[d].pc = "idle"
   /\ \A c \in Chunks : healQ[c] = 0
   /\ \A w \in HealWorkers : hw[w].pc = "idle")
  => \A c \in Chunks :
       chunk[c].status = "HEALTHY" => HealthyCount(c) >= TargetReplicas

\* C7: when detectAffectedChunks(d) completes, no placement row on d has
\* isHealthy = true
C7_DetectLeavesNoHealthyRow ==
  [][\A d \in Devices :
       (da[d].pc \in {"sched", "flip", "queue", "write"} /\ da'[d].pc = "idle")
       => \A l \in locs' : l.dev = d => ~l.healthy]_vars

---------------------------------------------------------------------------
(* Repair after distribution, with fairness                                *)

\* Four devices; c1 was distributed to d1, d2 and d3, which either all
\* acknowledged it or all let the send time out; d4 holds nothing.  Then d1
\* may drop out; no acknowledgement arrives any more.  Timers, workers and
\* handlers that can run do run.
FairDevices == {"d1", "d2", "d3", "d4"}
FairHolders == <<"d1", "d2", "d3">>

InitFair ==
  \E acked \in BOOLEAN : Placed(FairDevices, Capacity, "c1", FairHolders, 1, acked)

NextFair ==
  \/ Disconnect("d1")
  \/ DetectStep(FairDevices)
  \/ ScanStart
  \/ ScanQueue
  \/ HealStep(SpecWorkers, SpecChunks)

Fairness ==
  /\ WF_vars(DetectStep(FairDevices))
  /\ WF_vars(ScanStart)
  /\ WF_vars(ScanQueue)
  /\ WF_vars(HealStep(SpecWorkers, SpecChunks))

FairSpec == InitFair /\ [][NextFair]_vars /\ Fairness

\* the moment d1, one of three healthy holders of c1, has been marked OFFLINE
\* while d4 is ONLINE, eligible and has no placement of c1
HolderWentOffline ==
  /\ dev["d1"].status = "OFFLINE"
  /\ da["d1"].pc = "sched"
  /\ Cardinality({l \in LocsOf("c1") : l.healthy}) = TargetReplicas
  /\ HealthyCount("c1") = TargetReplicas - 1
  /\ "d4" \in Eligible(ChunkSize, MinReliability)
  /\ ~UniqueViolation("c1", "d4")

\* a device other than the original holders has the chunk on its disk and
\* the chunk has targetReplicas healthy placements on ONLINE devices again
Replaced ==
  /\ \E d \in Devices \ SeqRange(FairHolders) : "c1" \in holds[d]
  /\ HealthyCount("c1") >= TargetReplicas

\* C2: when a holder of a chunk with three healthy replicas goes OFFLINE and
\* another eligible ONLINE device without the chunk exists, a replacement
\* device eventually receives the chunk and the healthy placements on ONLINE
\* devices are at least three again
C2_OfflineHolderIsReplaced == HolderWentOffline ~> Replaced

\* C3: eventually, and from then on, currentReplicas of every chunk equals
\* the number of its placements that are healthy on an ONLINE device
C3_ReplicaCountConverges ==
  <>[](\A c \in SpecChunks : chunk[c].cr = HealthyCount(c))

---------------------------------------------------------------------------
(* Acknowledgements of one distribution                                    *)

\* Three connected devices answer the chunk:assign of one distributeChunk
\* call, each with success or with failure; nothing else happens
NextAck ==
  \E c \in SpecChunks :
    \/ DistStart(c)
    \/ DistCreate(c)
    \/ DistSend(c)
    \/ DistFinish(c)
    \/ \E d \in SpecDevices : \/ Confirm0(c, d)
                              \/ Confirm1(c, d)
                              \/ Confirm2(c, d)
                              \/ Reject(c, d)

SpecAck == Init /\ [][NextAck]_vars

\* the acknowledgements of c that have been processed to their end
Acked(c) == {d \in Devices : send[<<c, d>>].st = "ok"}

\* C4: while distributeChunk waits for its sends, currentReplicas is the
\* number of acknowledgements processed, whatever their interleaving, and
\* after targetReplicas of them the chunk is HEALTHY
C4_AcksAreCountedOnce ==
  \A c \in Chunks :
    dist[c].pc = "wait" =>
      /\ chunk[c].cr = Cardinality(Acked(c))
      /\ Cardinality(Acked(c)) = TargetReplicas => chunk[c].status = "HEALTHY"

---------------------------------------------------------------------------
(* Placement: a re-run of distributeChunk against concurrent healing       *)

\* c1 lives on d2, d3 and d4, which acknowledged it; d1, the device the
\* registry ranks first, registered afterwards.  distributeChunk(c1) is run
\* again while d2 drops out and two healing worker slots repair the chunk.
PlaceDevices == {"d1", "d2", "d3", "d4"}
PlaceHolders == <<"d2", "d3", "d4">>

InitPlace == Placed(PlaceDevices, Capacity, "c1", PlaceHolders, 1, TRUE)

NextPlace ==
  \/ DistStart("c1")
  \/ DistCreate("c1")
  \/ Disconnect("d2")
  \/ DetectStep(PlaceDevices)
  \/ ScanStart
  \/ ScanQueue
  \/ HealStep(HealWorkers, SpecChunks)

SpecPlace == InitPlace /\ [][NextPlace]_vars

\* C5: there is at most one placement row per (chunk, device) pair
C5_OneRowPerChunkAndDevice ==
  \A l1, l2 \in locs : (l1.chunk = l2.chunk /\ l1.dev = l2.dev) => l1.id = l2.id

\* distributeChunk was run again and a healing job was retried because its
\* create was refused, and the chunk has a row on a device it was not first
\* distributed to
C5_Witness ==
  /\ runs > 1
  /\ \E w \in HealWorkers : hw[w].att > 1
  /\ \E l \in locs : l.dev \notin SeqRange(PlaceHolders)

\* the rows a step inserts
Inserted == {l \in locs' : \A o \in locs : o.id # l.id}

\* C6: reassignChunk (whose rows are inserted with isHealthy false) never
\* inserts a row on a device that already has a row for the chunk
C6_ReassignSkipsDevicesWithARow ==
  [][\A l \in Inserted :
       ~l.healthy => \A o \in locs : ~(o.chunk = l.chunk /\ o.dev = l.dev)]_vars

\* reassignChunk has inserted a row for c1 on d1 while the other devices
\* keep their rows, the unhealthy one of d2 included
C6_Witness ==
  /\ \E l \in locs : l.dev = "d1" /\ ~l.healthy /\ l.id > Len(PlaceHolders)
  /\ \E l \in locs : l.dev = "d2" /\ ~l.healthy
  /\ Cardinality(LocsOf("c1")) = Len(PlaceHolders) + 1

---------------------------------------------------------------------------
(* The reaper                                                              *)

\* Six devices of equal capacity; distributeChunk(c1) ran twice, first to d1,
\* d2, d3 and then, these having less free space, to d4, d5, d6, and all six
\* acknowledged: c1 has six healthy placements.  The 12-hourly scan queues
\* the trimming, the devices delete the chunk when asked or stay silent, and
\* d6 may drop out.
TrimHolders == <<"d1", "d2", "d3", "d4", "d5", "d6">>
EqualCapacity == [d \in Devices |-> MaxCapacity]

InitTrim == Placed(Devices, EqualCapacity, "c1", TrimHolders, 2, TRUE)

NextTrim ==
  \/ ExcessScan
  \/ TrimTake("c1")
  \/ TrimRead
  \/ TrimDev
  \/ TrimNext
  \/ TrimDone
  \/ \E d \in Devices : \/ DelOk("c1", d)
                        \/ DelDec("c1", d)
                        \/ DelTimeout("c1", d)
  \/ Disconnect("d6")
  \/ DetectStart("d6")
  \/ \E t \in da["d6"].todo : DetectFlip("d6", t)

TrimSpec == InitTrim /\ [][NextTrim]_vars

\* C8: when a delete-excess-replicas job has finished and none is waiting
\* (no placement is added in this specification), the chunk has at most
\* targetReplicas + SAFETY_MARGIN healthy placements on ONLINE devices
C8_TrimmedToTheMargin ==
  (tw.pc = "done" /\ trimQ[tw.c] = 0) => HealthyCount(tw.c) <= maxAllowed

\* C9: a placement row is removed only while the chunk has more than
\* targetReplicas + SAFETY_MARGIN healthy placements on ONLINE devices
C9_NoRemovalAtTheMargin ==
  [][\A c \in Chunks :
       Cardinality(LocsOf(c)') < Cardinality(LocsOf(c))
       => HealthyCount(c) > maxAllowed]_vars

---------------------------------------------------------------------------
(* File deletion, with fairness                                            *)

\* c1 is on d1, d2 and d3, all acknowledged.  The file is deleted, once or
\* again, while the chunk may be distributed anew: d1 acknowledges chunks and
\* deletes them when asked, d2 refuses to delete, d3 never answers.  The
\* delete-file worker, the handlers it started and the 60 s timers run when
\* they can; the devices and the distribution owe nothing.
FileStep ==
  \/ FileTake
  \/ FileChunks
  \/ \E c \in SpecChunks : FileLocs(c)
  \/ FileSettled
  \/ FileNoChunks
  \/ FileFinal

DeleteHandlerStep ==
  \E d \in SpecDevices : \/ DelDec("c1", d)
                         \/ DelTimeout("c1", d)

DeleteHolders == <<"d1", "d2", "d3">>

InitDelete == Placed(SpecDevices, Capacity, "c1", DeleteHolders, 1, TRUE)

NextDelete ==
  \/ DeleteFile
  \/ FileStep
  \/ DeleteHandlerStep
  \/ DelOk("c1", "d1")
  \/ DelFail("c1", "d2")
  \/ DistStart("c1")
  \/ DistCreate("c1")
  \/ DistSend("c1")
  \/ DistFinish("c1")
  \/ Confirm0("c1", "d1")
  \/ Confirm1("c1", "d1")
  \/ Confirm2("c1", "d1")
  \/ \E d \in SpecDevices : SendTimeout("c1", d)

DeleteSpec ==
  /\ InitDelete
  /\ [][NextDelete]_vars
  /\ WF_vars(FileStep)
  /\ WF_vars(DeleteHandlerStep)

\* C10: once deleteFile has marked the file DELETED, the delete-file job,
\* within its five attempts, brings about that no placement row of the file's
\* chunks is left, and none comes back
C10_DeletedFileLosesItsPlacements ==
  /\ [](fj.att <= FileAttempts)
  /\ (file = "DELETED") ~> [](locs = {})

\* the job has deleted the file row after the chunk had been placed anew
\* behind its back, d1 had removed its copy and d3 had not answered
C10_Witness ==
  /\ file = "GONE"
  /\ fj.pc = "idle"
  /\ nextId > 2 * RedundancyFactor
  /\ "c1" \notin holds["d1"]
  /\ del[<<"c1", "d3">>] = "tmo"
  /\ locs = {}

---------------------------------------------------------------------------
(* File deletion while a holder is away                                    *)

\* c1 is on d1, d2 and d3, all acknowledged.  d3 may lose its connection
\* before, while or after the file is deleted; d1 and d2 delete the chunk
\* when asked.
NextOfflineDelete ==
  \/ Disconnect("d3")
  \/ DetectStep(SpecDevices)
  \/ DeleteFile
  \/ FileStep
  \/ DeleteHandlerStep
  \/ \E d \in SpecDevices : DelOk("c1", d)

OfflineDeleteSpec == InitDelete /\ [][NextOfflineDelete]_vars

\* the delete-file job has converged: the file row is gone and no job for it
\* runs or waits
Converged == file = "GONE" /\ fj.pc = "idle" /\ fileQ = 0

\* C11: when the delete-file job has converged, every device that keeps a
\* chunk of the file has been sent chunk:delete for it
C11_EveryHolderIsToldToDelete ==
  Converged => \A d \in Devices : \A c \in holds[d] : <<c, d>> \in told

---------------------------------------------------------------------------
\* A suspended device: d1 has been suspended before anything was placed, its
\* socket is still open (suspendDevice closes nothing), and a chunk waits for
\* its distribution
InitSuspended ==
  /\ AtRest(SpecDevices)
  /\ dev = [d \in Devices |->
              IF d = "d1"
              THEN [FreshDev(MaxCapacity) EXCEPT !.status = "SUSPENDED"]
              ELSE IF d \in SpecDevices THEN FreshDev(MaxCapacity) ELSE NoDev]
  /\ holds = [d \in Devices |-> {}]
  /\ chunk = [c \in Chunks |-> IF c = "c1" THEN [status |-> "PENDING", cr |-> 0]
                               ELSE [status |-> "NONE", cr |-> 0]]
  /\ locs = {}
  /\ nextId = 1
  /\ send = [p \in Chunks \X Devices |-> SendNone]
  /\ runs = 0

NextSuspended ==
  \/ RegistryStep({"d1"}, EqualCapacity)
  \/ DetectStep({"d1"})
  \/ DistStart("c1")
  \/ DistCreate("c1")

SuspendedSpec == InitSuspended /\ [][NextSuspended]_vars

\* C12: a suspended device receives no placement, whatever registrations,
\* heartbeats, storage updates and disconnects follow its suspension
C12_NoPlacementAfterSuspend == LocsOn("d1") = {}

---------------------------------------------------------------------------
(* Download: downloadFile -> checkFileAvailability -> retrieveFile          *)

\* the chunk rows of the file, ordered by sequenceNum
sequenceNum(c) == IF c = "c1" THEN 0 ELSE 1
fileChunks ==
  LET rows == {c \in Chunks : chunk[c].status # "NONE"}
  IN IF rows = Chunks THEN <<"c1", "c2">>
     ELSE IF rows = {} THEN <<>>
     ELSE <<CHOOSE c \in rows : TRUE>>

\* the plaintext of a chunk (one byte, different for every chunk), what
\* decryptChunk returns when it throws, and the file that was uploaded
Plain(c) == sequenceNum(c) + 1
Throw == 0
FilePlain == <<Plain("c1"), Plain("c2")>>

\* SHA-256 of a buffer: an injective code of the byte sequence
RECURSIVE generateChecksum(_)
generateChecksum(buf) ==
  IF buf = <<>> THEN 0 ELSE buf[1] + 4 * generateChecksum(Tail(buf))

FileChecksum == generateChecksum(FilePlain)

\* decryptChunk: the hash of the ciphertext must be the one stored in the
\* chunk row, and GCM must authenticate it under the key, IV and AAD of
\* chunk c
decryptChunk(c, data) ==
  IF data.of = c /\ ~data.flipped THEN Plain(c) ELSE Throw

\* nothing is verified: a byte-flipped ciphertext decrypts to another byte
Unverified(cs, data) ==
  [ok |-> TRUE,
   buf |-> [i \in 1..Len(cs) |->
              IF decryptChunk(cs[i], data[cs[i]]) = Throw THEN 3
              ELSE decryptChunk(cs[i], data[cs[i]])]]

\* retrieveFile, steps 4 to 6: decrypt the chunks in order, concatenate and
\* compare the checksum of the result with file.checksum
Reassemble(cs, data) ==
  LET dec == [i \in 1..Len(cs) |-> decryptChunk(cs[i], data[cs[i]])]
  IN IF \E i \in 1..Len(cs) : dec[i] = Throw THEN [ok |-> FALSE, buf |-> <<>>]
     ELSE IF generateChecksum(dec) # FileChecksum
          THEN [ok |-> FALSE, buf |-> <<>>]
          ELSE [ok |-> TRUE, buf |-> dec]

DlUnchanged ==
  UNCHANGED <<now, dev, sock, holds, file, chunk, locs, nextId, dist, send,
              da, scan, healQ, hw, events, runs, told, rh, ul, hs,
              cleanupVars>>

\* GET /files/:id/download -> downloadFile: the file must be ACTIVE
DlStart ==
  /\ dl.pc \in {"idle", "done", "failed"}
  /\ file = "ACTIVE"
  /\ dl' = [DlIdle EXCEPT !.pc = "avail", !.cache = dl.cache, !.bad = dl.bad]
  /\ DlUnchanged

\* checkFileAvailability: every chunk has a healthy row on an ONLINE device
DlAvail ==
  /\ dl.pc = "avail"
  /\ LET missing == {c \in Chunks :
                       /\ chunk[c].status # "NONE"
                       /\ ~\E l \in locs : /\ l.chunk = c /\ l.healthy
                                           /\ dev[l.dev].status = "ONLINE"}
     IN dl' = IF file = "GONE" THEN [dl EXCEPT !.pc = "failed", !.why = "file"]
              ELSE IF missing # {}
                   THEN [dl EXCEPT !.pc = "failed", !.why = "missing"]
                   ELSE [dl EXCEPT !.pc = "read"]
  /\ DlUnchanged

\* retrieveFile: read the file with its chunks in sequence order and start
\* one retrieveChunk per chunk
DlRead ==
  /\ dl.pc = "read"
  /\ dl' = IF file = "GONE" THEN [dl EXCEPT !.pc = "failed", !.why = "file"]
           ELSE [dl EXCEPT !.pc = "fetch", !.chunks = fileChunks,
                           !.ch = [c \in Chunks |->
                                     IF chunk[c].status # "NONE"
                                     THEN [DlChunkIdle EXCEPT !.pc = "locs"]
                                     ELSE DlChunkIdle]]
  /\ DlUnchanged

\* retrieveChunk: the chunk row, then the holders from the cache or, when it
\* has none, the healthy rows on ONLINE devices, which are cached
DlLocs(c) ==
  /\ dl.pc = "fetch"
  /\ dl.ch[c].pc = "locs"
  /\ LET db == {l.dev : l \in {x \in locs : /\ x.chunk = c /\ x.healthy
                                             /\ dev[x.dev].status = "ONLINE"}}
         locations == IF dl.cache[c].hit THEN dl.cache[c].devs ELSE db
     IN dl' = IF chunk[c].status = "NONE" \/ locations = {}
              THEN [dl EXCEPT !.ch[c].pc = "fail"]
              ELSE [dl EXCEPT !.ch[c].pc = "try", !.ch[c].todo = locations,
                              !.cache[c] = [hit |-> TRUE, devs |-> locations]]
  /\ DlUnchanged

\* the next holder of the list; retrieveChunkFromDevice throws when it has
\* no socket, else it emits chunk:request and waits
DlAsk(c, d) ==
  /\ dl.pc = "fetch"
  /\ dl.ch[c].pc = "try"
  /\ d \in dl.ch[c].todo
  /\ dl' = [dl EXCEPT !.ch[c].todo = @ \ {d}, !.ch[c].tried = @ \cup {d},
                      !.ch[c].pc = IF sock[d] > 0 THEN "wait" ELSE "try",
                      !.ch[c].at = IF sock[d] > 0 THEN d ELSE "none"]
  /\ DlUnchanged

\* the list is used up
DlExhausted(c) ==
  /\ dl.pc = "fetch"
  /\ dl.ch[c].pc = "try"
  /\ dl.ch[c].todo = {}
  /\ dl' = [dl EXCEPT !.ch[c].pc = "fail"]
  /\ DlUnchanged

\* chunk:data with success: the device returns the ciphertext it stores and
\* retrieveChunk returns it
DlData(c) ==
  /\ dl.pc = "fetch"
  /\ dl.ch[c].pc = "wait"
  /\ sock[dl.ch[c].at] > 0
  /\ c \in holds[dl.ch[c].at]
  /\ dl' = [dl EXCEPT !.ch[c].pc = "got", !.ch[c].at = "none",
                      !.ch[c].data = [of |-> c,
                                      flipped |-> <<c, dl.ch[c].at>> \in dl.bad]]
  /\ DlUnchanged

\* chunk:data without success, or no answer within 60 s: the next holder
DlNoData(c) ==
  /\ dl.pc = "fetch"
  /\ dl.ch[c].pc = "wait"
  /\ dl' = [dl EXCEPT !.ch[c].pc = "try", !.ch[c].at = "none"]
  /\ DlUnchanged

\* Promise.all rejects with the first retrieveChunk that throws
DlReject ==
  /\ dl.pc = "fetch"
  /\ \E c \in Chunks : dl.ch[c].pc = "fail"
  /\ dl' = [dl EXCEPT !.pc = "failed", !.why = "chunk"]
  /\ DlUnchanged

\* every chunk was returned: decrypt, concatenate, verify, return
DlAssemble ==
  /\ dl.pc = "fetch"
  /\ \A i \in 1..Len(dl.chunks) : dl.ch[dl.chunks[i]].pc = "got"
  /\ LET r == Reassemble(dl.chunks, [c \in Chunks |-> dl.ch[c].data])
     IN dl' = IF r.ok THEN [dl EXCEPT !.pc = "done", !.out = r.buf]
              ELSE [dl EXCEPT !.pc = "failed", !.why = "integrity"]
  /\ DlUnchanged

\* a byte of the ciphertext that device d stores for chunk c flips
FlipByte(c, d) ==
  /\ c \in holds[d]
  /\ <<c, d>> \notin dl.bad
  /\ dl' = [dl EXCEPT !.bad = @ \cup {<<c, d>>}]
  /\ DlUnchanged

\* the cached holders of a chunk expire after 300 s
CacheExpire(c) ==
  /\ dl.cache[c].hit
  /\ dl' = [dl EXCEPT !.cache[c] = NoCache]
  /\ DlUnchanged

DownloadStep ==
  \/ DlStart
  \/ DlAvail
  \/ DlRead
  \/ DlReject
  \/ DlAssemble
  \/ \E c \in Chunks : \/ DlLocs(c)
                       \/ \E d \in Devices : DlAsk(c, d)
                       \/ DlExhausted(c)
                       \/ DlData(c)
                       \/ DlNoData(c)
                       \/ CacheExpire(c)

\* A file of two chunks, each placed on d1, d2 and d3 and acknowledged
InitDownload ==
  /\ AtRest(SpecDevices)
  /\ dev = [d \in Devices |->
              IF d \in SpecDevices
              THEN [FreshDev(Capacity[d]) EXCEPT !.avail = @ - 2 * ChunkSize]
              ELSE NoDev]
  /\ holds = [d \in Devices |-> IF d \in SpecDevices THEN Chunks ELSE {}]
  /\ chunk = [c \in Chunks |-> [status |-> "HEALTHY", cr |-> RedundancyFactor]]
  /\ locs = {[id |-> i, chunk |-> "c1", dev |-> DeleteHolders[i],
              healthy |-> TRUE, verified |-> TRUE] : i \in 1..3}
            \cup
            {[id |-> 3 + i, chunk |-> "c2", dev |-> DeleteHolders[i],
              healthy |-> TRUE, verified |-> TRUE] : i \in 1..3}
  /\ nextId = 7
  /\ send = [p \in Chunks \X Devices |-> SendNone]
  /\ runs = 0

NextDownload ==
  \/ DownloadStep
  \/ FlipByte("c1", "d1")
  \/ Disconnect("d2")
  \/ DetectStep({"d2"})

DownloadSpec == InitDownload /\ [][NextDownload]_vars

\* C13: a download that succeeds returns all chunks of the file in sequence
\* order, and the SHA-256 of what it returns is the checksum of the file
C13_DownloadReturnsTheWholeFile ==
  dl.pc = "done" => /\ dl.out = FilePlain
                    /\ generateChecksum(dl.out) = FileChecksum

\* a download succeeded although one holder did not deliver and another
\* stores a ciphertext with a flipped byte
C13_Witness ==
  /\ dl.pc = "done"
  /\ dl.bad # {}
  /\ \E c \in Chunks : Cardinality(dl.ch[c].tried) > 1

\* C14: the download does not fail on the integrity check while a healthy
\* ONLINE holder with an intact ciphertext has not been asked
C14_IntactHolderIsTried ==
  (dl.pc = "failed" /\ dl.why = "integrity") =>
    \A c \in Chunks :
      decryptChunk(c, dl.ch[c].data) = Throw =>
        ~\E l \in locs : /\ l.chunk = c /\ l.healthy
                         /\ dev[l.dev].status = "ONLINE"
                         /\ sock[l.dev] > 0
                         /\ c \in holds[l.dev]
                         /\ <<c, l.dev>> \notin dl.bad
                         /\ l.dev \notin dl.ch[c].tried

---------------------------------------------------------------------------
\* Capacity accounting: d1 holds a chunk, registers again and sends
\* heartbeats while the file is deleted
NextCapacity ==
  \/ RegisterRead("d1", Capacity["d1"], FALSE)
  \/ HeartbeatRead("d1")
  \/ \E k \in Calls : \/ RegisterWrite(k)
                      \/ \E avail \in 0..MaxCapacity : HeartbeatWrite(k, avail)
  \/ DeleteFile
  \/ FileStep
  \/ DeleteHandlerStep
  \/ DelOk("c1", "d1")

CapacitySpec == InitDelete /\ [][NextCapacity]_vars

\* C15: the free space of a device is never negative and never more than
\* its capacity
C15_AvailableWithinTotal ==
  \A d \in Devices : 0 <= dev[d].avail /\ dev[d].avail <= dev[d].total

---------------------------------------------------------------------------
\* The registry: d1 holds a chunk; it registers, on its socket or on a new
\* one, sends heartbeats, loses sockets and is suspended, while time passes
\* and the detection that a disconnect schedules runs
NextRegistry ==
  \/ RegistryStep({"d1"}, Capacity)
  \/ DetectStep({"d1"})
  \/ Tick

RegistrySpec == InitDelete /\ [][NextRegistry]_vars

\* The sockets of d1: it registers on new sockets and loses them, while time
\* passes and the detection that a disconnect schedules runs
NextSockets ==
  \/ RegisterRead("d1", Capacity["d1"], TRUE)
  \/ \E k \in Calls : RegisterWrite(k)
  \/ Disconnect("d1")
  \/ DetectStep({"d1"})
  \/ Tick

SocketSpec == InitDelete /\ [][NextSockets]_vars

\* C16: the cumulative uptime and downtime of a device never decrease
C16_CountersNeverDecrease ==
  [][\A d \in Devices : /\ dev'[d].up >= dev[d].up
                        /\ dev'[d].down >= dev[d].down]_vars

\* C17: markDeviceOffline on a device that is not ONLINE changes neither its
\* row nor the detection and healing that are scheduled
C17_SecondMarkOfflineChangesNothing ==
  [][\A d \in Devices :
       (sock'[d] < sock[d] /\ dev[d].status # "ONLINE") =>
         (dev'[d] = dev[d] /\ da'[d] = da[d] /\ healQ' = healQ)]_vars

\* both sockets of d1 have disconnected and the second disconnect found the
\* device OFFLINE
C17_Witness ==
  /\ sock["d1"] = 0
  /\ events = MaxEvents
  /\ dev["d1"].status = "OFFLINE"
  /\ dev["d1"].down = dev["d1"].seen
  /\ dev["d1"].seen < now

\* a step that takes device d down, or registers it again after it was
\* OFFLINE
DowntimeTransition(d) ==
  \/ /\ dev[d].status = "ONLINE"
     /\ dev'[d].status \in {"OFFLINE", "SUSPENDED"}
  \/ /\ dev[d].status = "OFFLINE"
     /\ dev'[d].status = "ONLINE"
     /\ \E r \in rh : r.op = "reg" /\ r.d = d /\ r \notin rh'

\* C19: the stored reliability score does not rise across a downtime
\* transition
C19_ScoreDoesNotRiseWhenGoingDown ==
  [][\A d \in Devices :
       DowntimeTransition(d) => dev'[d].score <= dev[d].score]_vars

\* C20: at most one open socket is bound to a device id
C20_OneSocketPerDevice == \A d \in Devices : sock[d] <= 1

---------------------------------------------------------------------------
\* Registering again: d1 is OFFLINE without a socket and registers with the
\* same payload, on new sockets and again on those, one call after the other
\* or two at once
InitOffline ==
  /\ AtRest(SpecDevices \ {"d1"})
  /\ dev = [d \in Devices |->
              IF d = "d1"
              THEN [FreshDev(MaxCapacity) EXCEPT !.status = "OFFLINE"]
              ELSE IF d \in SpecDevices THEN FreshDev(MaxCapacity) ELSE NoDev]
  /\ holds = [d \in Devices |-> {}]
  /\ chunk = [c \in Chunks |-> [status |-> "NONE", cr |-> 0]]
  /\ locs = {}
  /\ nextId = 1
  /\ send = [p \in Chunks \X Devices |-> SendNone]
  /\ runs = 0

NextReRegister ==
  \/ \E fresh \in BOOLEAN : RegisterRead("d1", MaxCapacity, fresh)
  \/ \E k \in Calls : RegisterWrite(k)
  \/ Tick

ReRegisterSpec == InitOffline /\ [][NextReRegister]_vars

\* C18: once a register call has brought the device ONLINE, the write of
\* another register call with the same payload leaves its state, counters,
\* score and capacity as they are
C18_SecondRegisterChangesNothing ==
  [][\A d \in Devices :
       (/\ dev[d].status = "ONLINE"
        /\ \E r \in rh : r.op = "reg" /\ r.d = d /\ r \notin rh')
       => [dev'[d] EXCEPT !.seen = 0] = [dev[d] EXCEPT !.seen = 0]]_vars

---------------------------------------------------------------------------
\* Assignment with too few devices: a chunk waits for its distribution while
\* devices drop out and the detection that follows runs
NextAssign ==
  \/ \E d \in SpecDevices : Disconnect(d)
  \/ DetectStep(SpecDevices)
  \/ DistStart("c1")
  \/ DistCreate("c1")

AssignSpec == Init /\ [][NextAssign]_vars

\* C21: assignChunk that finds fewer than RedundancyFactor eligible devices
\* ends there and creates no placement row
C21_TooFewDevicesNoPlacement ==
  [][(/\ runs' = runs + 1
      /\ Cardinality(Eligible(ChunkSize, MinReliability)) < RedundancyFactor)
     => (dist'["c1"] = DistIdle /\ locs' = locs)]_vars

\* a distribution ran with a device OFFLINE and no row exists
C21_Witness ==
  /\ runs > 0
  /\ \E d \in SpecDevices : dev[d].status = "OFFLINE"
  /\ dist["c1"] = DistIdle
  /\ locs = {}

---------------------------------------------------------------------------
(* Upload: uploadFile -> calculateChunkCount, processFile, chunk rows       *)

\* sizes in bytes
GiB == 1024 * 1024 * 1024
NO_CHUNK_THRESHOLD == 1024 * 1024 * 1024
MEDIUM_THRESHOLD_GIB == 5
MEDIUM_CHUNK_SIZE == 500 * 1024 * 1024
LARGE_CHUNK_SIZE == 1024 * 1024 * 1024

\* fileSizeBytes <= MEDIUM_FILE_THRESHOLD (5 GiB), compared in whole GiB
AtMostMedium(size) ==
  \/ size \div GiB < MEDIUM_THRESHOLD_GIB
  \/ size \div GiB = MEDIUM_THRESHOLD_GIB /\ size % GiB = 0

\* one chunk size of 1 GiB for every file that is chunked
determineLargeChunkSize(size) ==
  IF size <= NO_CHUNK_THRESHOLD
  THEN [chunkSize |-> size, shouldChunk |-> FALSE]
  ELSE [chunkSize |-> LARGE_CHUNK_SIZE, shouldChunk |-> TRUE]

determineChunkSize(size) ==
  IF size <= NO_CHUNK_THRESHOLD
  THEN [chunkSize |-> size, shouldChunk |-> FALSE]
  ELSE IF AtMostMedium(size)
       THEN [chunkSize |-> MEDIUM_CHUNK_SIZE, shouldChunk |-> TRUE]
       ELSE [chunkSize |-> LARGE_CHUNK_SIZE, shouldChunk |-> TRUE]

\* the sizes of the slices cut from offset on
RECURSIVE splitIntoChunks(_, _, _)
splitIntoChunks(size, chunkSize, offset) ==
  IF offset < size
  THEN LET currentChunkSize == Min(chunkSize, size - offset)
       IN <<currentChunkSize>>
            \o splitIntoChunks(size, chunkSize, offset + currentChunkSize)
  ELSE <<>>

\* processFile, step 3: the plaintext sizes of the chunks, in sequence order
processFile(size) ==
  LET strategy == determineChunkSize(size)
  IN IF strategy.shouldChunk THEN splitIntoChunks(size, strategy.chunkSize, 0)
     ELSE <<size>>

\* a count that rounds down
floorChunkCount(size) ==
  LET strategy == determineChunkSize(size)
  IN IF ~strategy.shouldChunk THEN 1 ELSE size \div strategy.chunkSize

\* Math.ceil(fileSizeBytes / chunkSize)
calculateChunkCount(size) ==
  LET strategy == determineChunkSize(size)
  IN IF ~strategy.shouldChunk THEN 1
     ELSE size \div strategy.chunkSize
            + (IF size % strategy.chunkSize = 0 THEN 0 ELSE 1)

UlUnchanged ==
  UNCHANGED <<now, dev, sock, holds, file, chunk, locs, nextId, dist, send,
              da, scan, healQ, hw, events, runs, told, rh, dl, hs,
              cleanupVars>>

\* POST /files: the size is valid (not 0, not above the maximum); create the
\* File row with status UPLOADING and chunkCount
UploadStart(size) ==
  /\ ul.pc \in {"idle", "done"}
  /\ size > 0
  /\ ul' = [pc |-> "created", size |-> size,
            chunkCount |-> calculateChunkCount(size), status |-> "UPLOADING",
            plan |-> <<>>, rows |-> <<>>, del |-> FALSE]
  /\ UlUnchanged

\* processFile and the update of the File row with the encryption metadata
UploadProcess ==
  /\ ul.pc = "created"
  /\ ul.status # "NONE"
  /\ ul' = [ul EXCEPT !.pc = "chunks", !.plan = processFile(ul.size)]
  /\ UlUnchanged

\* one turn of the loop: create the Chunk row of the next chunk and store its
\* ciphertext in the temporary store
UploadChunk ==
  /\ ul.pc = "chunks"
  /\ ul.status # "NONE"
  /\ Len(ul.rows) < Len(ul.plan)
  /\ ul' = [ul EXCEPT !.rows = Append(@, [sequenceNum |-> Len(ul.rows),
                                          sizeBytes |-> ul.plan[Len(ul.rows) + 1]])]
  /\ UlUnchanged

\* after the loop: status ACTIVE
UploadActive ==
  /\ ul.pc = "chunks"
  /\ ul.status # "NONE"
  /\ Len(ul.rows) = Len(ul.plan)
  /\ ul' = [ul EXCEPT !.pc = "done", !.status = "ACTIVE"]
  /\ UlUnchanged

\* a statement of the try block throws: the catch sets status DELETED (its
\* update throws as well when the File row is gone)
UploadFail ==
  /\ ul.pc \in {"created", "chunks"}
  /\ ul' = [ul EXCEPT !.pc = "done",
                      !.status = IF @ = "NONE" THEN "NONE" ELSE "DELETED"]
  /\ UlUnchanged

\* file sizes around the thresholds and the chunk sizes
UploadSizes ==
  {1, MEDIUM_CHUNK_SIZE, 2 * MEDIUM_CHUNK_SIZE + 1, NO_CHUNK_THRESHOLD - 1, NO_CHUNK_THRESHOLD,
   NO_CHUNK_THRESHOLD + 1, 3 * MEDIUM_CHUNK_SIZE - 1, 3 * MEDIUM_CHUNK_SIZE,
   3 * MEDIUM_CHUNK_SIZE + 1, 4 * MEDIUM_CHUNK_SIZE, 4 * MEDIUM_CHUNK_SIZE + 1}

NextUpload ==
  \/ \E size \in UploadSizes : UploadStart(size)
  \/ UploadProcess
  \/ UploadChunk
  \/ UploadActive
  \/ UploadFail

UploadSpec == Init /\ [][NextUpload]_vars

\* C22: the chunk rows of an ACTIVE file carry the sequence numbers
\* 0 .. chunkCount - 1, each once
C22_ActiveFileHasAllItsChunkRows ==
  ul.status = "ACTIVE" =>
    /\ Len(ul.rows) = ul.chunkCount
    /\ \A i \in 1..Len(ul.rows) : ul.rows[i].sequenceNum = i - 1

\* a file of several chunks, the last one shorter, is ACTIVE
C22_Witness ==
  /\ ul.status = "ACTIVE"
  /\ ul.chunkCount > 2
  /\ ul.rows[ul.chunkCount].sizeBytes < ul.rows[1].sizeBytes

\* C23 as stated: a file of 1 GiB + 1 byte is split into 2 chunks, the last
\* of 1 byte
C23_TwoChunksLastOneByte ==
  (ul.size = GiB + 1 /\ ul.pc \in {"chunks", "done"} /\ ul.plan # <<>>) =>
    (Len(ul.plan) = 2 /\ ul.plan[2] = 1)

\* C23 as amended: a file of 1 GiB + 1 byte is split into 3 chunks of
\* 500 MiB, 500 MiB and 24 MiB + 1 byte
C23_ThreeChunksOfMediumSize ==
  (ul.size = GiB + 1 /\ ul.pc \in {"chunks", "done"} /\ ul.plan # <<>>) =>
    ul.plan = <<MEDIUM_CHUNK_SIZE, MEDIUM_CHUNK_SIZE, 24 * 1024 * 1024 + 1>>

\* the file of 1 GiB + 1 byte is ACTIVE
C23_Witness ==
  /\ ul.size = GiB + 1
  /\ ul.status = "ACTIVE"
  /\ Len(ul.rows) = Len(ul.plan)

---------------------------------------------------------------------------
\* Healing again: c1 is stored on d3, d4, d5 and d1, d2 are free; d3 drops
\* out, detection and the scan queue healing and two worker slots run it
HealAgainDevices == {"d1", "d2", "d3", "d4", "d5"}
HealAgainHolders == <<"d3", "d4", "d5">>

InitHealAgain ==
  Placed(HealAgainDevices, Capacity, "c1", HealAgainHolders, 1, TRUE)

NextHealAgain ==
  \/ Disconnect("d3")
  \/ DetectStep({"d3"})
  \/ ScanStart
  \/ ScanQueue
  \/ HealStep(HealWorkers, SpecChunks)

HealAgainSpec == InitHealAgain /\ [][NextHealAgain]_vars

\* the rows of c that are healthy on an ONLINE device, or were inserted by
\* reassignChunk and wait for their acknowledgement
HealthyOrAwaiting(c) ==
  {l \in LocsOf(c) : IsLive(l) \/ (~l.healthy /\ ~l.verified)}

\* C24: healing never brings the placements of a chunk that are healthy or
\* await their acknowledgement above targetReplicas
C24_HealingStaysWithinTarget ==
  Cardinality(HealthyOrAwaiting("c1")) <= TargetReplicas


\* the create of worker w is refused by the unique index (chunkId, deviceId)
HitsUniqueViolation(w) ==
  /\ hw[w].pc = "create"
  /\ UniqueViolation(hw[w].c, Head(hw[w].todo))

\* C25: when two jobs race to insert the same (chunk, device) pair, one row
\* results and the job whose create is refused by the unique index treats the
\* refusal as success: it goes on with its run, it does not fail and it is
\* not started again
C25_UniqueViolationIsSuccess ==
  [][\A w \in HealWorkers :
       (HitsUniqueViolation(w) /\ hw'[w] # hw[w]) =>
          /\ C5_OneRowPerChunkAndDevice'
          /\ hw'[w].att = hw[w].att
          /\ hw'[w].pc \in {"create", "count"}]_vars


---------------------------------------------------------------------------
(* Reconciliation by the scanner                                           *)

\* the placements of c whose device acknowledged the chunk
AckedReplicas(c) == {l \in LocsOf(c) : l.verified}

\* a send of c timed out and c has fewer acknowledged replicas than its target
SendFailedBelowTarget(c) ==
  /\ \E d \in Devices : send[<<c, d>>].st = "tmo"
  /\ Cardinality(AckedReplicas(c)) < TargetReplicas

\* C26: after a send failed or timed out, a chunk with fewer than
\* targetReplicas acknowledged replicas is eventually enqueued for healing
C26_UnackedChunkIsEnqueued ==
  SendFailedBelowTarget("c1") ~> (healQ["c1"] > 0)


\* c1 was acknowledged on d1, d2 and d3; then d1 dropped out, detection
\* flipped its row and the heal-chunk job found no candidate (d2 and d3 fill
\* the two candidates it asked for) and left the chunk REPLICATING with two
\* replicas.  d4 is ONLINE and holds nothing.  Now d2 and d3 may drop out;
\* detection, the hourly scan and the healing worker run whenever they can.
InitLost ==
  /\ AtRest(FairDevices \ {"d1"})
  /\ dev = [d \in Devices |->
              IF d \notin FairDevices THEN NoDev
              ELSE IF d = "d1"
                   THEN [FreshDev(Capacity[d]) EXCEPT !.status = "OFFLINE",
                                                      !.avail = @ - ChunkSize]
              ELSE IF d \in SeqRange(FairHolders)
                   THEN [FreshDev(Capacity[d]) EXCEPT !.avail = @ - ChunkSize]
              ELSE FreshDev(Capacity[d])]
  /\ holds = [d \in Devices |-> IF d \in SeqRange(FairHolders) THEN {"c1"}
                                 ELSE {}]
  /\ chunk = [c \in Chunks |->
                IF c = "c1"
                THEN [status |-> "REPLICATING", cr |-> TargetReplicas - 1]
                ELSE [status |-> "NONE", cr |-> 0]]
  /\ locs = {[id |-> i, chunk |-> "c1", dev |-> FairHolders[i],
              healthy |-> FairHolders[i] # "d1", verified |-> TRUE] :
               i \in 1..Len(FairHolders)}
  /\ nextId = Len(FairHolders) + 1
  /\ send = [p \in Chunks \X Devices |-> SendNone]
  /\ runs = 1

NextLost ==
  \/ \E d \in {"d2", "d3"} : Disconnect(d)
  \/ DetectStep(FairDevices)
  \/ ScanStart
  \/ ScanQueue
  \/ HealStep(SpecWorkers, SpecChunks)

LostSpec == InitLost /\ [][NextLost]_vars /\ Fairness

\* C27: a chunk that was marked LOST (no healthy holder left) is taken up by
\* healing again and returns to REPLICATING
C27_LostChunkReturnsToReplicating ==
  (chunk["c1"].status = "LOST") ~> (chunk["c1"].status = "REPLICATING")


\* C28: when a pass of scanAllChunks ends, every chunk it read as REPLICATING,
\* HEALTHY or DEGRADED with fewer healthy holders than its target has a
\* heal-chunk job waiting and its status set to DEGRADED, or to LOST when it
\* has no healthy holder
C28_ScanQueuesAndReclassifies ==
  [][(scan.pc = "run" /\ scan'.pc = "idle") =>
       \A c \in scan.todo :
          /\ healQ'[c] > 0
          /\ chunk'[c].status =
               (IF HealthyCount(c) = 0 THEN "LOST" ELSE "DEGRADED")]_vars


\* C29: currentReplicas of a chunk is never negative, whatever the order of
\* delete acknowledgements, trim-excess jobs, file deletion and the recounts
\* of detectAffectedChunks and the healing worker
C29_CurrentReplicasNotNegative == \A c \in Chunks : chunk[c].cr >= 0


---------------------------------------------------------------------------
(* Two chunks distributed at the same time                                 *)

\* A file of two chunks has been uploaded; distributeChunk runs for both and
\* d1, selected for both, acknowledges them
InitTwoChunks == Uploaded(SpecDevices, Capacity, Chunks)

NextTwoChunks ==
  \E c \in Chunks :
    \/ DistStart(c)
    \/ DistCreate(c)
    \/ DistSend(c)
    \/ Confirm0(c, "d1")
    \/ Confirm1(c, "d1")
    \/ Confirm2(c, "d1")

TwoChunkSpec == InitTwoChunks /\ [][NextTwoChunks]_vars

\* the chunks whose acknowledgement by d has been processed to its end
AckedOn(d) == {c \in Chunks : send[<<c, d>>].st = "ok"}

\* C30: every successful acknowledgement lowers the device's free space by
\* the size of the chunk: once the acknowledgements of a device have been
\* processed, its free space has gone down by the sum of the sizes of the
\* chunks acknowledged
C30_FreeSpaceFallsBySumOfSizes ==
  \A d \in SpecDevices :
    (\A c \in Chunks : ~InHandler(c, d)) =>
       dev[d].avail = dev[d].total - ChunkSize * Cardinality(AckedOn(d))


---------------------------------------------------------------------------
(* A delete request that is not answered                                   *)

\* C31: when the chunk:delete sent to a connected device is not answered
\* within 60 s, the request resolves, the trimming job goes on without
\* failing, and the placement row of that device is marked isHealthy: false
C31_TimeoutMarksRowUnhealthy ==
  [][(/\ tw.pc = "wait"
      /\ del[<<tw.c, Head(tw.todo)>>] = "tmo"
      /\ tw' # tw)
     => /\ tw'.pc \in {"dev", "done"}
        /\ \A l \in locs' :
             (l.chunk = tw.c /\ l.dev = Head(tw.todo)) => ~l.healthy]_vars


---------------------------------------------------------------------------
(* Deleting a file that is being uploaded                                  *)

\* deleteFile for the file of the upload: it throws for an unknown file, else
\* marks the row DELETED and queues a delete-file job
DeleteUploadedFile ==
  /\ ul.status # "NONE"
  /\ ul' = [ul EXCEPT !.status = "DELETED", !.del = TRUE]
  /\ UlUnchanged

\* executeFileDeletion of that job: prisma.file.delete, the Chunk rows go
\* with the File row
ReapUploadedFile ==
  /\ ul.del
  /\ ul' = [ul EXCEPT !.status = "NONE", !.del = FALSE, !.rows = <<>>]
  /\ UlUnchanged

NextUploadDelete ==
  \/ \E size \in UploadSizes : UploadStart(size)
  \/ UploadProcess
  \/ UploadChunk
  \/ UploadActive
  \/ UploadFail
  \/ DeleteUploadedFile
  \/ ReapUploadedFile

UploadDeleteSpec == Init /\ [][NextUploadDelete]_vars

\* C32: once deleteFile has marked a file DELETED, no later step of an
\* upload that is still in progress sets it back to UPLOADING or ACTIVE
C32_DeletedFileStaysDeleted ==
  [][(ul.status = "DELETED" /\ ~(ul.pc \in {"idle", "done"} /\ ul'.pc = "created"))
     => ul'.status \notin {"UPLOADING", "ACTIVE"}]_vars


---------------------------------------------------------------------------
(* HealthScheduler: schedulers/health.scheduler.ts                         *)

\* the four setInterval timers of start() and their periods in seconds
Intervals == {"scan", "cleanup", "summary", "trim"}
HOUR == 60 * 60
Period(k) == CASE k = "scan" -> HOUR
               [] k = "cleanup" -> HOUR
               [] k = "summary" -> 24 * HOUR
               [] k = "trim" -> 12 * HOUR
\* the setTimeout of the initial scan
StartupDelay == 5

\* the interval timer k fires now
Due(k) ==
  /\ k \in hs.intervals
  /\ hs.clock > 0
  /\ hs.clock % Period(k) = 0
  /\ k \notin hs.done
\* the timeout of the initial scan fires now
StartupDue == hs.startup /\ hs.clock = StartupDelay /\ "startup" \notin hs.done

\* everything but the scheduler, the scan and the cleanup queue
SchedUnchanged ==
  UNCHANGED <<now, dev, sock, holds, file, chunk, locs, nextId, dist, send,
              da, healQ, hw, tw, fileQ, fj, del, events, runs, told, rh,
              dl, ul>>

\* start(): four setInterval timers are pushed on this.intervals and the
\* initial scan is set for 5 s later
SchedStart ==
  /\ ~hs.started
  /\ hs' = [hs EXCEPT !.started = TRUE, !.intervals = Intervals,
                      !.startup = TRUE]
  /\ UNCHANGED <<scan, trimQ>>
  /\ SchedUnchanged

\* stop(): clearInterval for every timer of this.intervals, which is emptied
SchedStop ==
  /\ hs.started
  /\ ~hs.stopped
  /\ hs' = [hs EXCEPT !.stopped = TRUE, !.intervals = {}]
  /\ UNCHANGED <<scan, trimQ>>
  /\ SchedUnchanged

\* time passes to the next instant at which a timer can be due; the timers
\* due now have fired
SchedAdvance ==
  /\ hs.started
  /\ ~StartupDue
  /\ \A k \in Intervals : ~Due(k)
  /\ LET next == IF hs.clock < StartupDelay THEN StartupDelay
                 ELSE (hs.clock \div HOUR + 1) * HOUR
     IN /\ next <= MaxHours * HOUR
        /\ hs' = [hs EXCEPT !.clock = next, !.done = {}]
  /\ UNCHANGED <<scan, trimQ>>
  /\ SchedUnchanged

\* what scanAllChunks reads when a timer calls it
scanAllChunks == [pc |-> "run", todo |-> {c \in Scanned : NeedsHealing(c)}]

\* the setTimeout callback: the initial scan
SchedStartupScan ==
  /\ StartupDue
  /\ scan.pc = "idle"
  /\ scan' = scanAllChunks
  /\ hs' = [hs EXCEPT !.startup = FALSE, !.done = @ \cup {"startup"}]
  /\ UNCHANGED trimQ
  /\ SchedUnchanged

\* schedule 1: the hourly scan
SchedScan ==
  /\ Due("scan")
  /\ scan.pc = "idle"
  /\ scan' = scanAllChunks
  /\ hs' = [hs EXCEPT !.done = @ \cup {"scan"}]
  /\ UNCHANGED trimQ
  /\ SchedUnchanged

\* schedule 2 adds a cleanup-temp-storage job, schedule 3 logs the health
\* summary: neither writes anything the model holds
SchedOther(k) ==
  /\ k \in {"cleanup", "summary"}
  /\ Due(k)
  /\ hs' = [hs EXCEPT !.done = @ \cup {k}]
  /\ UNCHANGED <<scan, trimQ>>
  /\ SchedUnchanged

\* schedule 4: scanAndCleanupExcessReplicas
SchedTrim ==
  /\ Due("trim")
  /\ trimQ' = [c \in Chunks |->
                IF chunk[c].status # "NONE" /\ HealthyCount(c) > maxAllowed
                THEN Min(trimQ[c] + 1, MaxCleanupJobs) ELSE trimQ[c]]
  /\ hs' = [hs EXCEPT !.done = @ \cup {"trim"}]
  /\ UNCHANGED scan
  /\ SchedUnchanged

\* The server starts with c1 on six devices; one of them may drop out.  The
\* scheduler is started once and may be stopped at any moment.
NextSched ==
  \/ SchedStart
  \/ SchedStop
  \/ SchedAdvance
  \/ SchedStartupScan
  \/ SchedScan
  \/ \E k \in Intervals : SchedOther(k)
  \/ SchedTrim
  \/ ScanQueue
  \/ Disconnect("d6")

SchedSpec == InitTrim /\ [][NextSched]_vars

\* C33: scanAllChunks runs once at startup and then every 60 minutes, and
\* after stop() has returned no scan, cleanup, summary or trim callback fires
\* any more, the initial scan included
C33_NothingFiresAfterStop ==
  [][hs.stopped => hs'.done \subseteq hs.done]_vars


---------------------------------------------------------------------------
(* Candidates of reassignChunk                                             *)

\* the eligible devices without a placement of the chunk worker w repairs
FreeCandidates(w) == Eligible(ChunkSize, MinReliability) \ hw[w].existing

\* C34: when a chunk misses m > 0 replicas and at least m eligible devices
\* hold no placement of it, reassignChunk selects exactly m devices for new
\* placements, however many holders rank above them
C34_ReassignFindsTheFreeDevices ==
  [][\A w \in HealWorkers :
       (/\ hw[w].pc = "cands"
        /\ hw'[w] # hw[w]
        /\ Cardinality(FreeCandidates(w)) >= hw[w].missing)
       => /\ hw'[w].pc = "create"
          /\ Len(hw'[w].todo) = hw[w].missing]_vars


---------------------------------------------------------------------------
(* A holder that comes back                                                *)

\* c1 is acknowledged on d1, d2 and d3, the only devices.  d1 drops out and
\* registers again on a new socket, still holding the chunk; detection, the
\* hourly scan and the healing worker run whenever they can.  No device is
\* without a row of c1, so reassignChunk never reaches its create loop.
NextReturn ==
  \/ Disconnect("d1")
  \/ DetectStep({"d1"})
  \/ RegisterRead("d1", Capacity["d1"], TRUE)
  \/ \E k \in Calls : RegisterWrite(k)
  \/ ScanStart
  \/ ScanQueue
  \/ \E w \in SpecWorkers : \/ HealTake(w, "c1")
                             \/ HealRead(w)
                             \/ HealReassign(w)
                             \/ HealCands(w)
                             \/ HealCount(w)
                             \/ HealWrite(w)

ReturnFairness ==
  /\ WF_vars(DetectStep({"d1"}))
  /\ WF_vars(\E k \in Calls : RegisterWrite(k))
  /\ WF_vars(ScanStart)
  /\ WF_vars(ScanQueue)
  /\ WF_vars(\E w \in SpecWorkers : \/ HealTake(w, "c1")
                                     \/ HealRead(w)
                                     \/ HealReassign(w)
                                     \/ HealCands(w)
                                     \/ HealCount(w)
                                     \/ HealWrite(w))

ReturnSpec == InitDelete /\ [][NextReturn]_vars /\ ReturnFairness

\* d1 is ONLINE again with the chunk on its disk, and the chunk is below its
\* target
HolderReturned ==
  /\ dev["d1"].status = "ONLINE"
  /\ "c1" \in holds["d1"]
  /\ HealthyCount("c1") < TargetReplicas

\* C35: when a holder that went OFFLINE is ONLINE again, still holding the
\* chunk, and no other eligible device exists, the chunk eventually has
\* targetReplicas healthy placements again
C35_ReturnedHolderCountsAgain ==
  HolderReturned ~> (HealthyCount("c1") >= TargetReplicas)


---------------------------------------------------------------------------
(* Acknowledgements and the replica counter                                *)

\* C36: the acknowledgement of a placement is counted in currentReplicas at
\* most once: the counter never exceeds the number of placements of the
\* chunk, also when a confirm arrives after the 30 s timeout or the chunk is
\* distributed again
C36_PlacementCountedOnce ==
  \A c \in Chunks : chunk[c].cr <= Cardinality(LocsOf(c))


---------------------------------------------------------------------------
(* Disconnect of an old socket                                             *)

\* C37: when a device has registered on a new socket, the disconnect of its
\* old socket does not mark it OFFLINE and does not start the detection that
\* flips its placements, as long as the new socket is open
C37_OldSocketDoesNotTakeDeviceDown ==
  [][\A d \in Devices :
       (sock[d] > 1 /\ sock'[d] = sock[d] - 1) =>
          /\ dev'[d].status = dev[d].status
          /\ da'[d] = da[d]]_vars


---------------------------------------------------------------------------
(* File deletion during the first distribution                             *)

\* The file has just been uploaded: uploadFile has answered and the
\* distribution of c1 runs on its own.  The file may be deleted at any moment
\* of it.  As in DeleteSpec, d1 stores what it is sent and deletes what it is
\* asked to, d2 refuses to delete and d3 never answers.
DistDeleteSpec == Init /\ [][NextDelete]_vars

\* C38: when the delete-file job of a file that was deleted during its
\* distribution has completed, no placement row of the file's chunks exists
\* and every device that keeps one of its chunks has been sent chunk:delete
\* for it
C38_NoCopyOutlivesTheDeleteJob ==
  (Converged /\ runs > 0) =>
     /\ \A c \in Chunks : LocsOf(c) = {}
     /\ \A d \in Devices : \A c \in holds[d] : <<c, d>> \in told


---------------------------------------------------------------------------
(* Uptime of a device that was away                                        *)

\* C39: a heartbeat that updateDeviceHeartbeat read after the device had been
\* marked OFFLINE, and writes while the device is still OFFLINE, leaves the
\* cumulative uptime as it was: the time since the device was marked offline
\* is not counted as uptime
C39_OfflineTimeIsNoUptime ==
  [][\A r \in rh :
       (/\ r.op = "hb"
        /\ r \notin rh'
        /\ dev[r.d].status = "OFFLINE"
        /\ r.t > dev[r.d].seen)
       => dev'[r.d].up = dev[r.d].up]_vars


---------------------------------------------------------------------------
(* Retrieval with a cached holder list                                     *)

\* no download is between its availability check and its answer
NoDownloadRuns == dl.pc \in {"idle", "done", "failed"}

\* A file of one chunk has just been uploaded and is ACTIVE.  It is
\* downloaded, once or again, and between the downloads its distribution
\* goes on and d1 may lose its connection: the placements a retrieval could
\* use are those that exist when it starts.  d2 stores what it is sent, the
\* other devices do not answer chunk:assign; a device that is asked for the
\* chunk may not answer within 60 s.
DistBetweenDownloads ==
  /\ NoDownloadRuns
  /\ \/ DistStart("c1")
     \/ DistCreate("c1")
     \/ DistSend("c1")
     \/ DistFinish("c1")
     \/ Confirm0("c1", "d2")
     \/ Confirm1("c1", "d2")
     \/ Confirm2("c1", "d2")
     \/ \E d \in SpecDevices : SendTimeout("c1", d)
     \/ Disconnect("d1")

NextStaleCache ==
  \/ DownloadStep
  \/ DistBetweenDownloads
  \/ DetectStep({"d1"})

StaleCacheSpec == Init /\ [][NextStaleCache]_vars

\* the devices that have a healthy placement of c, are ONLINE and connected
\* and store c
GoodHolders(c) ==
  {l.dev : l \in {x \in LocsOf(c) : /\ x.healthy
                                    /\ dev[x.dev].status = "ONLINE"
                                    /\ sock[x.dev] > 0
                                    /\ c \in holds[x.dev]}}

\* C40: retrieveChunk does not give up on a chunk while a connected ONLINE
\* device with a healthy placement of it has not been asked, also when the
\* cached holder list does not name that device
C40_RetrievalFallsBackToTheStore ==
  \A c \in Chunks :
    (dl.pc = "fetch" /\ dl.ch[c].pc = "fail") => GoodHolders(c) \subseteq dl.ch[c].tried

====
